---------------------------- MODULE Spec2Model ----------------------------
(***************************************************************************)
(* Model of the catalyst agent pipeline (catalyst_agent/agent.py,          *)
(* catalyst_agent/tools.py): a linear LangGraph of six nodes threading an  *)
(* AgentState, every stage but the last calling the generation capability  *)
(* (llm.invoke) once or several times, and the aggregator                  *)
(* generate_final_json_node folding the per-feature fragments into one     *)
(* phase-bucketed JSON document.                                           *)
(*                                                                         *)
(* Encodings.  A Python Optional is a sequence of length 0 (None) or 1; a   *)
(* key that the state dict does not hold at all is Absent.                 *)
(* A Python dict is a record [keys, map]: keys is the insertion order.     *)
(* JSON text is the sequence of its members in the order json.dumps emits  *)
(* them: an object is a sequence of <<key, value>> pairs, null is None,    *)
(* a non-null value of a nullable member is Some(value), and an object     *)
(* serialised through default=str is Str(object).                          *)
(***************************************************************************)
EXTENDS Integers, Sequences, FiniteSets, TLC

VARIABLES
    pc,                      \* the node the graph is at: START, a node, END or FAILED
    raw_text,                \* AgentState slots (state.py)
    parsed_requirements,
    estimated_complexities,
    tasks,
    acceptance_criteria,
    copilot_prompts,
    final_json,
    acc,                     \* the list a tool is accumulating in its loop
    task_names_response,     \* generate_tasks: the names-only response awaiting its detail call
    llm_calls,               \* history of llm.invoke calls
    executed,                \* history of completed nodes
    error,                   \* the exception a failed run surfaces
    agg_calls,               \* number of times generate_final_json_node has returned
    prev_json,               \* final_json text returned by the previous call
    llm_instance,            \* core._llm_instance, the module-level singleton of get_llm
    agent_module,            \* the module whose create_agent built the graph being run
    active,                  \* the run that is executing (1 or 2)
    other,                   \* the local state of the run that is not executing, if any
    llm_threads              \* the threads inside get_llm: where each is, what it made and got

vars == <<pc, raw_text, parsed_requirements, estimated_complexities, tasks,
          acceptance_criteria, copilot_prompts, final_json, acc,
          task_names_response, llm_calls, executed, error, agg_calls, prev_json,
          llm_instance, agent_module, active, other, llm_threads>>

slots == <<raw_text, parsed_requirements, estimated_complexities, tasks,
           acceptance_criteria, copilot_prompts, final_json>>

-----------------------------------------------------------------------------
(* Bounds *)

MaxFeatures == 2

-----------------------------------------------------------------------------
(* Helpers *)

None == <<>>
Some(x) == <<x>>

\* The state is a dict: a caller may pass one that lacks a key altogether.
Absent == <<"absent", "key">>

\* state.get(key, default)
StateGet(slot, default) == IF slot = Absent THEN default ELSE slot

\* The list a loop walks when the slot is set or its key is absent (the get default).
OrEmpty(slot) == IF slot = None \/ slot = Absent THEN <<>> ELSE slot[1]

Min(a, b) == IF a < b THEN a ELSE b

Range(s) == {s[i] : i \in DOMAIN s}

RECURSIVE Flatten(_)
Flatten(ss) == IF ss = <<>> THEN <<>> ELSE Head(ss) \o Flatten(Tail(ss))

RECURSIVE SumLen(_)
SumLen(ss) == IF ss = <<>> THEN 0 ELSE Len(Head(ss)) + SumLen(Tail(ss))

-----------------------------------------------------------------------------
(* Schemas (output_structures.py) and the values the generation capability *)
(* may return for each of them.                                            *)

\* The schema module under src/ declares neither ProjectPhase, nor Task.phase, nor
\* FeatureCopilotPrompts, all of which agent.py and tools.py use: the three are taken
\* from the design (the phases of a delivery plan, phase as a mandatory field of Task,
\* task_prompts as a sequence of (task_title, prompt)) and from their uses in agent.py.
ProjectPhase == <<"setup", "implementation", "testing", "documentation">>

Feature(n) == [name |-> n, description |-> "..."]

FeatureList == <<Feature("Login"), Feature("Signup"), Feature("Profile"), Feature("Search")>>

ParsedRequirements(fs) ==
    [features |-> fs, constraints |-> <<>>, stakeholders |-> <<>>, success_criteria |-> <<>>]

EstimatedComplexity(d, days) == [difficulty |-> d, estimated_days |-> days, risks |-> <<>>]

Task(t, d, p, deps) ==
    [title |-> t, description |-> d, priority |-> p, dependencies |-> deps]

\* A Task carrying the phase attribute the aggregator reads (task.phase).
WithPhase(task, ph) ==
    [title |-> task.title, description |-> task.description, priority |-> task.priority,
     dependencies |-> task.dependencies, phase |-> ph]

AcceptanceCriterion(g) == [given |-> g, when |-> "w", then |-> "t"]

TestDescription(n, ty) == [test_name |-> n, test_type |-> ty, description |-> "..."]

TaskAcceptanceCriteria(t, crit, ut, it) ==
    [task_title |-> t, acceptance_criteria |-> crit, unit_tests |-> ut, integration_tests |-> it]

FeatureAcceptanceCriteria(tc) == [feature_name |-> "f", tasks_criteria |-> tc]

TaskCopilotPrompt(t, p) == [task_title |-> t, prompt |-> p]

FeatureCopilotPrompts(tp) == [task_prompts |-> tp]

RawTexts == {"", "Build a login page"}

BuildForm == WithPhase(Task("Build form", "d1", "high", <<>>), "implementation")
AddTests == WithPhase(Task("Add tests", "d2", "medium", <<"Build form">>), "testing")
BuildForm2 == WithPhase(Task("Build form", "d3", "low", <<"Add tests">>), "setup")

CritBuild == TaskAcceptanceCriteria("Build form", <<AcceptanceCriterion("g1")>>,
                 <<TestDescription("u1", "unit")>>, <<>>)
CritBuild2 == TaskAcceptanceCriteria("Build form", <<AcceptanceCriterion("g2")>>,
                 <<TestDescription("u2", "unit")>>, <<TestDescription("i2", "integration")>>)
CritTests == TaskAcceptanceCriteria("Add tests", <<AcceptanceCriterion("g3")>>,
                 <<TestDescription("u3", "unit")>>, <<>>)
CritDeploy == TaskAcceptanceCriteria("Deploy", <<AcceptanceCriterion("g4")>>,
                 <<TestDescription("u4", "unit")>>, <<>>)

PromptBuild == TaskCopilotPrompt("Build form", "Implement the form")
PromptBuild2 == TaskCopilotPrompt("Build form", "Create the form")
PromptTests == TaskCopilotPrompt("Add tests", "Add the tests")
PromptDeploy == TaskCopilotPrompt("Deploy", "Deploy it")

ParseResponses == {ParsedRequirements(SubSeq(FeatureList, 1, n)) : n \in 0..MaxFeatures}

ComplexityResponses == {EstimatedComplexity("easy", 2), EstimatedComplexity("hard", 9)}

TaskNameResponses == {[tasks |-> <<"Build form", "Add tests">>], [tasks |-> <<"Build form">>]}

TaskListResponses == {[tasks |-> <<>>], [tasks |-> <<BuildForm>>],
                      [tasks |-> <<BuildForm, AddTests>>]}

CriteriaResponses == {FeatureAcceptanceCriteria(<<CritBuild, CritTests>>),
                      FeatureAcceptanceCriteria(<<CritTests>>)}

PromptResponses == {FeatureCopilotPrompts(<<PromptBuild, PromptTests>>)}

-----------------------------------------------------------------------------
(* The graph built by create_agent (agent.py) *)

Nodes == {"parse_requirements", "estimate_complexity", "generate_tasks",
          "create_acceptance_criteria", "generate_copilot_prompts", "generate_final_json"}

\* Variant of Edges: the edge out of generate_tasks bypasses create_acceptance_criteria.
EdgesSkippingCriteria ==
    {<<"START", "parse_requirements">>,
     <<"parse_requirements", "estimate_complexity">>,
     <<"estimate_complexity", "generate_tasks">>,
     <<"generate_tasks", "generate_copilot_prompts">>,
     <<"create_acceptance_criteria", "generate_copilot_prompts">>,
     <<"generate_copilot_prompts", "generate_final_json">>,
     <<"generate_final_json", "END">>}

Edges == {<<"START", "parse_requirements">>,
          <<"parse_requirements", "estimate_complexity">>,
          <<"estimate_complexity", "generate_tasks">>,
          <<"generate_tasks", "create_acceptance_criteria">>,
          <<"create_acceptance_criteria", "generate_copilot_prompts">>,
          <<"generate_copilot_prompts", "generate_final_json">>,
          <<"generate_final_json", "END">>}

\* The node(s) the compiled graph activates when node n has completed.
Successors(n) == {e[2] : e \in {d \in Edges : d[1] = n}}

\* A node returns its update; the graph records the completion and follows the edge.
NodeReturn(n) ==
    /\ \E m \in Successors(n) : pc' = m
    /\ executed' = Append(executed, n)

-----------------------------------------------------------------------------
(* The inputs each tool iterates over, as its node reads them from the state *)

Features == IF StateGet(parsed_requirements, None) = None THEN <<>>
            ELSE parsed_requirements[1].features

\* for feature in requirements.features
EstimateCount == Len(Features)
\* Variant of TasksCount: zip(features, complexities, strict=True) guarded by a length
\* test, nothing is generated when the lengths differ.
TasksCountStrict ==
    IF Len(Features) = Len(OrEmpty(estimated_complexities)) THEN Len(Features) ELSE 0

\* for feature, complexity in zip(features, complexities)
TasksCount == Min(Len(Features), Len(OrEmpty(estimated_complexities)))
\* for feature, feature_tasks in zip(features, tasks)
CriteriaCount == Min(Len(Features), Len(OrEmpty(tasks)))
\* for feature, feature_tasks, feature_ac in zip(features, tasks, acceptance_criteria)
PromptsCount == Min(Min(Len(Features), Len(OrEmpty(tasks))), Len(OrEmpty(acceptance_criteria)))

\* One record of the call history: the node, the schema requested with
\* with_structured_output, the loop position, what the prompt is built from, the outcome
\* ("returned" or "raised"), the response returned, and the formatted part of the
\* prompt where the tool formats one (None otherwise).
Call(node, schema, index, request, response) ==
    [node |-> node, schema |-> schema, index |-> index, request |-> request,
     outcome |-> "pending", response |-> response, message |-> None]

\* Variant of FindCriteria: the search goes on after a match, so the last entry
\* with the title is the one found.
FindCriteriaLast(tasks_criteria, title) ==
    LET hits == {j \in DOMAIN tasks_criteria : tasks_criteria[j].task_title = title}
    IN  IF hits = {} THEN None
        ELSE Some(tasks_criteria[CHOOSE j \in hits : \A h \in hits : h <= j])

\* task_ac = None; for tc in feature_ac.tasks_criteria:
\*     if tc.task_title == task.title: task_ac = tc; break
FindCriteria(tasks_criteria, title) ==
    LET hit[j \in 1..(Len(tasks_criteria) + 1)] ==
            IF j > Len(tasks_criteria) THEN None
            ELSE IF tasks_criteria[j].task_title = title THEN Some(tasks_criteria[j])
            ELSE hit[j + 1]
    IN  hit[1]

\* task_str: "Task:" and "Description:" always; with a task_ac the numbered
\* GIVEN/WHEN/THEN lines, and the "Unit Tests: n tests" and "Integration Tests: n
\* tests" lines for the test lists that are not empty. A part that is not written is
\* None.
TaskStr(task, task_ac) ==
    [title |-> task.title,
     description |-> task.description,
     criteria |->
        IF task_ac = None THEN None
        ELSE Some([i \in DOMAIN task_ac[1].acceptance_criteria |->
                     <<i, task_ac[1].acceptance_criteria[i].given,
                       task_ac[1].acceptance_criteria[i].when,
                       task_ac[1].acceptance_criteria[i].then>>]),
     unit_tests |->
        IF task_ac = None \/ task_ac[1].unit_tests = <<>> THEN None
        ELSE Some(Len(task_ac[1].unit_tests)),
     integration_tests |->
        IF task_ac = None \/ task_ac[1].integration_tests = <<>> THEN None
        ELSE Some(Len(task_ac[1].integration_tests))]

\* tasks_with_criteria: one task_str per task of the feature, in task order.
TasksWithCriteria(feature_tasks, feature_ac) ==
    [k \in DOMAIN feature_tasks |->
        TaskStr(feature_tasks[k],
                FindCriteria(feature_ac.tasks_criteria, feature_tasks[k].title))]

\* The llm.invoke call the run is about to make (None if the current node has none left).
PendingCall ==
    CASE pc = "parse_requirements" ->
            Some(Call(pc, "ParsedRequirements", 1, raw_text, None))
      [] pc = "parse" ->
            Some(Call(pc, "ParsedRequirements", 1, StateGet(Absent, ""), None))
      [] pc = "estimate_complexity" /\ Len(acc) < EstimateCount ->
            Some(Call(pc, "EstimatedComplexity", Len(acc) + 1,
                      <<Features[Len(acc) + 1], raw_text>>, None))
      [] pc = "generate_tasks" /\ Len(acc) < TasksCount /\ task_names_response = None ->
            Some(Call(pc, "TaskNameList", Len(acc) + 1,
                      <<Features[Len(acc) + 1], estimated_complexities[1][Len(acc) + 1]>>, None))
      [] pc = "generate_tasks" /\ Len(acc) < TasksCount /\ task_names_response # None ->
            Some(Call(pc, "TaskList", Len(acc) + 1,
                      <<Features[Len(acc) + 1], task_names_response[1].tasks>>, None))
      [] pc = "create_acceptance_criteria" /\ Len(acc) < CriteriaCount ->
            Some(Call(pc, "FeatureAcceptanceCriteria", Len(acc) + 1,
                      <<Features[Len(acc) + 1], tasks[1][Len(acc) + 1]>>, None))
      [] pc = "generate_copilot_prompts" /\ Len(acc) < PromptsCount ->
            Some([Call(pc, "FeatureCopilotPrompts", Len(acc) + 1,
                       <<Features[Len(acc) + 1], tasks[1][Len(acc) + 1],
                         acceptance_criteria[1][Len(acc) + 1]>>, None)
                  EXCEPT !.message = Some(TasksWithCriteria(
                                              tasks[1][Len(acc) + 1],
                                              acceptance_criteria[1][Len(acc) + 1]))])
      [] OTHER -> None

\* get_llm(): the module-level instance, created by the first call that finds none.
get_llm == IF llm_instance = None THEN Some("AzureLLM") ELSE llm_instance

\* Variant of Invoke: a response is asked for a second time before it is used.
InvokeTwice(r) ==
    /\ llm_instance' = get_llm
    /\ llm_calls' = llm_calls \o
                       <<[PendingCall[1] EXCEPT !.outcome = "returned", !.response = Some(r)],
                         [PendingCall[1] EXCEPT !.outcome = "returned", !.response = Some(r)]>>

\* get_llm().with_structured_output(schema) and llm.invoke(final_msg) returning
\* response r: the call is recorded with its result.
Invoke(r) ==
    /\ llm_instance' = get_llm
    /\ llm_calls' = Append(llm_calls,
                           [PendingCall[1] EXCEPT !.outcome = "returned", !.response = Some(r)])

-----------------------------------------------------------------------------
(* Initial state: agent.invoke({"raw_text": ...}) on a fresh AgentState *)

Init ==
    /\ pc = "START"
    /\ raw_text \in RawTexts
    /\ parsed_requirements = None
    /\ estimated_complexities = None
    /\ tasks = None
    /\ acceptance_criteria = None
    /\ copilot_prompts = None
    /\ final_json = None
    /\ acc = <<>>
    /\ task_names_response = None
    /\ llm_calls = <<>>
    /\ executed = <<>>
    /\ error = None
    /\ agg_calls = 0
    /\ prev_json = None
    /\ llm_instance = None
    /\ llm_threads = <<>>
    /\ agent_module = "catalyst_agent.agent"
    /\ active = 1
    /\ other = None

\* workflow.add_edge(START, "parse_requirements")
start ==
    /\ agent_module = "catalyst_agent.agent"
    /\ pc = "START"
    /\ \E m \in Successors("START") : pc' = m
    /\ UNCHANGED <<slots, acc, task_names_response, llm_calls, executed, error,
                   agg_calls, prev_json>>
    /\ UNCHANGED <<llm_instance, agent_module, active, other, llm_threads>>

\* parse_req_node / parse_requirements: one call, the response becomes the slot.
parse_req_node ==
    /\ pc = "parse_requirements"
    /\ \E r \in ParseResponses :
          /\ Invoke(r)
          /\ parsed_requirements' = Some(r)
    /\ NodeReturn("parse_requirements")
    /\ UNCHANGED <<raw_text, estimated_complexities, tasks, acceptance_criteria,
                   copilot_prompts, final_json, acc, task_names_response, error,
                   agg_calls, prev_json>>
    /\ UNCHANGED <<agent_module, active, other, llm_threads>>

\* Variant of AppendResponse: complexities.insert(0, response).
PrependResponse(list, response) == <<response>> \o list

\* complexities.append(response): the accumulator after one more response.
AppendResponse(list, response) == Append(list, response)

\* estimate_complexity: one iteration of the loop over requirements.features.
estimate_complexity_call ==
    /\ pc = "estimate_complexity"
    /\ Len(acc) < EstimateCount
    /\ \E r \in ComplexityResponses :
          /\ Invoke(r)
          /\ acc' = AppendResponse(acc, r)
    /\ UNCHANGED <<pc, slots, task_names_response, executed, error, agg_calls, prev_json>>
    /\ UNCHANGED <<agent_module, active, other, llm_threads>>

\* Variant of estimate_complexity_node: an empty list is returned as None.
estimate_complexity_node_none_if_empty ==
    /\ pc = "estimate_complexity"
    /\ Len(acc) = EstimateCount
    /\ estimated_complexities' = IF acc = <<>> THEN None ELSE Some(acc)
    /\ acc' = <<>>
    /\ NodeReturn("estimate_complexity")
    /\ UNCHANGED <<raw_text, parsed_requirements, tasks, acceptance_criteria,
                   copilot_prompts, final_json, task_names_response, llm_calls, error,
                   agg_calls, prev_json>>
    /\ UNCHANGED <<llm_instance, agent_module, active, other, llm_threads>>

\* estimate_complexity returns; estimate_complexity_node writes its slot.
estimate_complexity_node ==
    /\ pc = "estimate_complexity"
    /\ Len(acc) = EstimateCount
    /\ estimated_complexities' = Some(acc)
    /\ acc' = <<>>
    /\ NodeReturn("estimate_complexity")
    /\ UNCHANGED <<raw_text, parsed_requirements, tasks, acceptance_criteria,
                   copilot_prompts, final_json, task_names_response, llm_calls, error,
                   agg_calls, prev_json>>
    /\ UNCHANGED <<llm_instance, agent_module, active, other, llm_threads>>

\* generate_tasks, first LLM call of an iteration: the task names only.
generate_tasks_names_call ==
    /\ pc = "generate_tasks"
    /\ Len(acc) < TasksCount
    /\ task_names_response = None
    /\ \E r \in TaskNameResponses :
          /\ Invoke(r)
          /\ task_names_response' = Some(r)
    /\ UNCHANGED <<pc, slots, acc, executed, error, agg_calls, prev_json>>
    /\ UNCHANGED <<agent_module, active, other, llm_threads>>

\* Variant of AcceptDetail: only the tasks whose title is one of the names are kept.
AcceptDetailOnlyNamed(names, detailed) ==
    SelectSeq(detailed.tasks, LAMBDA t : \E i \in DOMAIN names : names[i] = t.title)

\* tasks.append(detailed_tasks_response.tasks): what generate_tasks keeps of the
\* detail response, given the names the first call returned.
AcceptDetail(names, detailed) == detailed.tasks

\* Variant of generate_tasks_detail_call: the names returned for the first feature
\* are kept and reused for the features after it.
generate_tasks_detail_call_reusing_names ==
    /\ pc = "generate_tasks"
    /\ Len(acc) < TasksCount
    /\ task_names_response # None
    /\ \E r \in TaskListResponses :
          /\ Invoke(r)
          /\ acc' = Append(acc, AcceptDetail(task_names_response[1].tasks, r))
    /\ UNCHANGED <<pc, slots, task_names_response, executed, error, agg_calls, prev_json>>
    /\ UNCHANGED <<agent_module, active, other, llm_threads>>

\* generate_tasks, second LLM call of an iteration: all detailed tasks at once.
generate_tasks_detail_call ==
    /\ pc = "generate_tasks"
    /\ Len(acc) < TasksCount
    /\ task_names_response # None
    /\ \E r \in TaskListResponses :
          /\ Invoke(r)
          /\ acc' = Append(acc, AcceptDetail(task_names_response[1].tasks, r))
    /\ task_names_response' = None
    /\ UNCHANGED <<pc, slots, executed, error, agg_calls, prev_json>>
    /\ UNCHANGED <<agent_module, active, other, llm_threads>>

\* Variant of generate_tasks_node: the node returns only once it has at least one
\* task group.
generate_tasks_node_awaiting_group ==
    /\ pc = "generate_tasks"
    /\ Len(acc) = TasksCount
    /\ acc # <<>>
    /\ tasks' = Some(acc)
    /\ acc' = <<>>
    /\ NodeReturn("generate_tasks")
    /\ UNCHANGED <<raw_text, parsed_requirements, estimated_complexities,
                   acceptance_criteria, copilot_prompts, final_json,
                   task_names_response, llm_calls, error, agg_calls, prev_json>>
    /\ UNCHANGED <<llm_instance, agent_module, active, other, llm_threads>>

generate_tasks_node ==
    /\ pc = "generate_tasks"
    /\ Len(acc) = TasksCount
    /\ tasks' = Some(acc)
    /\ acc' = <<>>
    /\ NodeReturn("generate_tasks")
    /\ UNCHANGED <<raw_text, parsed_requirements, estimated_complexities,
                   acceptance_criteria, copilot_prompts, final_json,
                   task_names_response, llm_calls, error, agg_calls, prev_json>>
    /\ UNCHANGED <<llm_instance, agent_module, active, other, llm_threads>>

\* Variant of create_acceptance_criteria_call: results are collected as they would be
\* by acceptance_criteria.insert(0, response).
create_acceptance_criteria_call_prepending ==
    /\ pc = "create_acceptance_criteria"
    /\ Len(acc) < CriteriaCount
    /\ \E r \in CriteriaResponses :
          /\ Invoke(r)
          /\ acc' = <<r>> \o acc
    /\ UNCHANGED <<pc, slots, task_names_response, executed, error, agg_calls, prev_json>>
    /\ UNCHANGED <<agent_module, active, other, llm_threads>>

\* create_acceptance_criteria: one iteration, one call for all the feature's tasks.
create_acceptance_criteria_call ==
    /\ pc = "create_acceptance_criteria"
    /\ Len(acc) < CriteriaCount
    /\ \E r \in CriteriaResponses :
          /\ Invoke(r)
          /\ acc' = Append(acc, r)
    /\ UNCHANGED <<pc, slots, task_names_response, executed, error, agg_calls, prev_json>>
    /\ UNCHANGED <<agent_module, active, other, llm_threads>>

\* Variant of create_acceptance_criteria_node: an empty result is returned as None.
create_acceptance_criteria_node_none_if_empty ==
    /\ pc = "create_acceptance_criteria"
    /\ Len(acc) = CriteriaCount
    /\ acceptance_criteria' = IF acc = <<>> THEN None ELSE Some(acc)
    /\ acc' = <<>>
    /\ NodeReturn("create_acceptance_criteria")
    /\ UNCHANGED <<raw_text, parsed_requirements, estimated_complexities, tasks,
                   copilot_prompts, final_json, task_names_response, llm_calls, error,
                   agg_calls, prev_json>>
    /\ UNCHANGED <<llm_instance, agent_module, active, other, llm_threads>>

create_acceptance_criteria_node ==
    /\ pc = "create_acceptance_criteria"
    /\ Len(acc) = CriteriaCount
    /\ acceptance_criteria' = Some(acc)
    /\ acc' = <<>>
    /\ NodeReturn("create_acceptance_criteria")
    /\ UNCHANGED <<raw_text, parsed_requirements, estimated_complexities, tasks,
                   copilot_prompts, final_json, task_names_response, llm_calls, error,
                   agg_calls, prev_json>>
    /\ UNCHANGED <<llm_instance, agent_module, active, other, llm_threads>>

\* Variant of generate_prompt_for_copilot_call: a feature without tasks gets an empty
\* result without a call.
generate_prompt_for_copilot_call_skipping_empty ==
    /\ pc = "generate_copilot_prompts"
    /\ Len(acc) < PromptsCount
    /\ IF tasks[1][Len(acc) + 1] = <<>>
       THEN /\ acc' = Append(acc, FeatureCopilotPrompts(<<>>))
            /\ UNCHANGED <<llm_calls, llm_instance>>
       ELSE \E r \in PromptResponses :
               /\ Invoke(r)
               /\ acc' = Append(acc, r)
    /\ UNCHANGED <<pc, slots, task_names_response, executed, error, agg_calls, prev_json>>
    /\ UNCHANGED <<agent_module, active, other, llm_threads>>

\* generate_prompt_for_copilot: one iteration, one call for all the feature's tasks.
generate_prompt_for_copilot_call ==
    /\ pc = "generate_copilot_prompts"
    /\ Len(acc) < PromptsCount
    /\ \E r \in PromptResponses :
          /\ Invoke(r)
          /\ acc' = Append(acc, r)
    /\ UNCHANGED <<pc, slots, task_names_response, executed, error, agg_calls, prev_json>>
    /\ UNCHANGED <<agent_module, active, other, llm_threads>>

\* Variant of generate_copilot_prompts_node: the update also carries
\* "acceptance_criteria": None.
generate_copilot_prompts_node_clearing_criteria ==
    /\ pc = "generate_copilot_prompts"
    /\ Len(acc) = PromptsCount
    /\ copilot_prompts' = Some(acc)
    /\ acceptance_criteria' = None
    /\ acc' = <<>>
    /\ NodeReturn("generate_copilot_prompts")
    /\ UNCHANGED <<raw_text, parsed_requirements, estimated_complexities, tasks,
                   final_json, task_names_response, llm_calls,
                   error, agg_calls, prev_json>>
    /\ UNCHANGED <<llm_instance, agent_module, active, other, llm_threads>>

generate_copilot_prompts_node ==
    /\ pc = "generate_copilot_prompts"
    /\ Len(acc) = PromptsCount
    /\ copilot_prompts' = Some(acc)
    /\ acc' = <<>>
    /\ NodeReturn("generate_copilot_prompts")
    /\ UNCHANGED <<raw_text, parsed_requirements, estimated_complexities, tasks,
                   acceptance_criteria, final_json, task_names_response, llm_calls,
                   error, agg_calls, prev_json>>
    /\ UNCHANGED <<llm_instance, agent_module, active, other, llm_threads>>

\* Variant of llm_invoke_raises: the exception is caught and the call is made again.
llm_invoke_raises_and_retries ==
    /\ PendingCall # None
    /\ llm_calls' = Append(llm_calls, [PendingCall[1] EXCEPT !.outcome = "raised"])
    /\ UNCHANGED <<pc, slots, acc, task_names_response, executed, error, agg_calls, prev_json>>
    /\ llm_instance' = get_llm
    /\ UNCHANGED <<agent_module, active, other, llm_threads>>

\* llm.invoke raises: no tool and no node catches it, so it leaves the tool (its
\* local list is lost), the node (no update is returned) and the graph's invoke.
llm_invoke_raises ==
    /\ PendingCall # None
    /\ llm_calls' = Append(llm_calls, [PendingCall[1] EXCEPT !.outcome = "raised"])
    /\ error' = Some([node |-> PendingCall[1].node, schema |-> PendingCall[1].schema,
                      index |-> PendingCall[1].index])
    /\ pc' = "FAILED"
    /\ acc' = <<>>
    /\ task_names_response' = None
    /\ UNCHANGED <<slots, executed, agg_calls, prev_json>>
    /\ llm_instance' = get_llm
    /\ UNCHANGED <<agent_module, active, other, llm_threads>>

-----------------------------------------------------------------------------
(* The aggregator: generate_final_json_node (agent.py) *)

\* A Python dict with its insertion order; d[k] = v keeps the place of an existing key.
EmptyDict == [keys |-> <<>>, map |-> <<>>]
HasKey(d, k) == k \in DOMAIN d.map
DictSet(d, k, v) ==
    [keys |-> IF HasKey(d, k) THEN d.keys ELSE Append(d.keys, k),
     map |-> (k :> v) @@ d.map]

\* str(obj), as json.dumps(..., default=str) serialises a pydantic object.
Str(obj) == <<"str", obj>>
StrEach(list) == [i \in DOMAIN list |-> Str(list[i])]

\* tasks_dict[task.title] = {...}
TaskEntry(task) ==
    [description |-> task.description,
     priority |-> task.priority,
     dependencies |-> task.dependencies,
     phase |-> task.phase,
     acceptance_criteria |-> None,
     unit_tests |-> <<>>,
     integration_tests |-> <<>>,
     copilot_prompt |-> None]

\* Variant of GatherTasks: tasks_dict.setdefault(task.title, {...}), the first task
\* carrying a title is kept.
RECURSIVE GatherTasksKeepingFirst(_, _)
GatherTasksKeepingFirst(ts, d) ==
    IF ts = <<>> THEN d
    ELSE GatherTasksKeepingFirst(Tail(ts),
             IF HasKey(d, Head(ts).title) THEN d
             ELSE DictSet(d, Head(ts).title, TaskEntry(Head(ts))))

\* for task_group in state.get("tasks", []): for task in task_group: ...
RECURSIVE GatherTasks(_, _)
GatherTasks(ts, d) ==
    IF ts = <<>> THEN d
    ELSE GatherTasks(Tail(ts), DictSet(d, Head(ts).title, TaskEntry(Head(ts))))

\* Variant of AttachCriteria: the two test lists are not copied.
AttachCriteriaWithoutTests(d, tc) ==
    IF HasKey(d, tc.task_title)
    THEN [d EXCEPT !.map[tc.task_title] =
             [@ EXCEPT !.acceptance_criteria = Some(tc.acceptance_criteria)]]
    ELSE d

\* if task_criteria.task_title in tasks_dict: attach the three fields
AttachCriteria(d, tc) ==
    IF HasKey(d, tc.task_title)
    THEN [d EXCEPT !.map[tc.task_title] =
             [@ EXCEPT !.acceptance_criteria = Some(tc.acceptance_criteria),
                       !.unit_tests = tc.unit_tests,
                       !.integration_tests = tc.integration_tests]]
    ELSE d

\* Variant of AddCriteria: the entries are applied from the last to the first, so the
\* first one carrying a title is the one whose values stay.
RECURSIVE AddCriteriaFirstStays(_, _)
AddCriteriaFirstStays(tcs, d) ==
    IF tcs = <<>> THEN d ELSE AttachCriteria(AddCriteriaFirstStays(Tail(tcs), d), Head(tcs))

RECURSIVE AddCriteria(_, _)
AddCriteria(tcs, d) ==
    IF tcs = <<>> THEN d ELSE AddCriteria(Tail(tcs), AttachCriteria(d, Head(tcs)))

\* Variant of AttachPrompt: no membership test, a missing title gets a fresh entry.
AttachPromptCreating(d, tp) ==
    DictSet(d, tp.task_title,
            [(IF HasKey(d, tp.task_title) THEN d.map[tp.task_title]
              ELSE [description |-> "", priority |-> "low", dependencies |-> <<>>,
                    phase |-> "implementation", acceptance_criteria |-> None,
                    unit_tests |-> <<>>, integration_tests |-> <<>>,
                    copilot_prompt |-> None])
             EXCEPT !.copilot_prompt = Some(tp.prompt)])

\* if task_prompt.task_title in tasks_dict: attach the prompt
AttachPrompt(d, tp) ==
    IF HasKey(d, tp.task_title)
    THEN [d EXCEPT !.map[tp.task_title] = [@ EXCEPT !.copilot_prompt = Some(tp.prompt)]]
    ELSE d

RECURSIVE AddPrompts(_, _)
AddPrompts(tps, d) ==
    IF tps = <<>> THEN d ELSE AddPrompts(Tail(tps), AttachPrompt(d, Head(tps)))

AllCriteria(ac) == Flatten([i \in DOMAIN ac |-> ac[i].tasks_criteria])
AllPrompts(cp) == Flatten([i \in DOMAIN cp |-> cp[i].task_prompts])

\* The intermediate mapping once the three loops of lines 147-172 have run.
TasksDict(ts, ac, cp) ==
    AddPrompts(AllPrompts(cp), AddCriteria(AllCriteria(ac), GatherTasks(Flatten(ts), EmptyDict)))

\* Variant of EmptyPlan: the loop creating one bucket per phase is missing.
EmptyPlanWithoutBuckets == EmptyDict

\* for phase in ProjectPhase: final_dict["development_plan"][phase.value] = {}
EmptyPlan == [keys |-> ProjectPhase, map |-> [p \in Range(ProjectPhase) |-> EmptyDict]]

\* Variant of PlanRecord: the copilot_prompt member is not copied from the entry.
PlanRecordWithoutPrompt(details) ==
    <<<<"description", details.description>>,
      <<"priority", details.priority>>,
      <<"dependencies", details.dependencies>>,
      <<"acceptance_criteria",
        IF details.acceptance_criteria = None THEN None
        ELSE Some(StrEach(details.acceptance_criteria[1]))>>,
      <<"unit_tests", StrEach(details.unit_tests)>>,
      <<"integration_tests", StrEach(details.integration_tests)>>,
      <<"copilot_prompt", None>>>>

\* final_dict["development_plan"][phase][task_title] = {...}
PlanRecord(details) ==
    <<<<"description", details.description>>,
      <<"priority", details.priority>>,
      <<"dependencies", details.dependencies>>,
      <<"acceptance_criteria",
        IF details.acceptance_criteria = None THEN None
        ELSE Some(StrEach(details.acceptance_criteria[1]))>>,
      <<"unit_tests", StrEach(details.unit_tests)>>,
      <<"integration_tests", StrEach(details.integration_tests)>>,
      <<"copilot_prompt", details.copilot_prompt>>>>

\* Variant of PopulatePlan: the entries whose phase is "setup" are passed over.
RECURSIVE PopulatePlanSkippingSetup(_, _, _)
PopulatePlanSkippingSetup(titles, d, plan) ==
    IF titles = <<>> THEN plan
    ELSE LET title == Head(titles)
             phase == d.map[title].phase
         IN PopulatePlanSkippingSetup(Tail(titles), d,
               IF HasKey(plan, phase) /\ phase # "setup"
               THEN [plan EXCEPT !.map[phase] = DictSet(@, title, PlanRecord(d.map[title]))]
               ELSE plan)

\* for task_title, details in tasks_dict.items(): if phase in development_plan: ...
RECURSIVE PopulatePlan(_, _, _)
PopulatePlan(titles, d, plan) ==
    IF titles = <<>> THEN plan
    ELSE LET title == Head(titles)
             phase == d.map[title].phase
         IN PopulatePlan(Tail(titles), d,
               IF HasKey(plan, phase)
               THEN [plan EXCEPT !.map[phase] = DictSet(@, title, PlanRecord(d.map[title]))]
               ELSE plan)

\* Variant of DevelopmentPlan: an entry whose phase has no bucket is put under
\* "implementation".
DevelopmentPlanDefaulting(d) ==
    PopulatePlan(d.keys,
                 [d EXCEPT !.map = [t \in DOMAIN d.map |->
                                       IF HasKey(EmptyPlan, d.map[t].phase) THEN d.map[t]
                                       ELSE [d.map[t] EXCEPT !.phase = "implementation"]]],
                 EmptyPlan)

DevelopmentPlan(d) == PopulatePlan(d.keys, d, EmptyPlan)

\* json.dumps of a dict: its members in insertion order.  A bucket maps titles to
\* records, the plan maps phases to buckets.
JsonBucket(d) == [i \in DOMAIN d.keys |-> <<d.keys[i], d.map[d.keys[i]]>>]
JsonPlan(plan) == [i \in DOMAIN plan.keys |-> <<plan.keys[i], JsonBucket(plan.map[plan.keys[i]])>>]

\* Variant of NumTasks: the count is kept in a module-level counter that is not reset
\* between calls.
NumTasksAccumulated(ts) ==
    (agg_calls + 1) * (IF StateGet(ts, None) = None \/ ts = Some(<<>>) THEN 0 ELSE SumLen(ts[1]))

\* metadata["num_tasks"]: 0 unless state.get("tasks") is truthy
NumTasks(ts) == IF StateGet(ts, None) = None \/ ts = Some(<<>>) THEN 0 ELSE SumLen(ts[1])

\* Variant of Metadata: num_tasks counts the task groups instead of the tasks.
MetadataCountingGroups(raw, pr, ec, ts, ac, cp) ==
    <<<<"original_text", raw>>,
      <<"num_features", IF StateGet(pr, None) = None THEN 0 ELSE Len(pr[1].features)>>,
      <<"num_tasks", Len(OrEmpty(ts))>>,
      <<"raw_values", <<>>>>>>

\* The "metadata" member (lines 127-145).  A raw value is null when the slot is None,
\* the get default ({} or [], both the empty sequence here) when its key is absent.
Metadata(raw, pr, ec, ts, ac, cp) ==
    <<<<"original_text", raw>>,
      <<"num_features", IF StateGet(pr, None) = None THEN 0 ELSE Len(pr[1].features)>>,
      <<"num_tasks", NumTasks(ts)>>,
      <<"raw_values",
        <<<<"parsed_requirements",
            IF pr = None THEN None ELSE Some(IF pr = Absent THEN <<>> ELSE Str(pr[1]))>>,
          <<"estimated_complexities",
            IF ec = None THEN None ELSE Some(StrEach(OrEmpty(ec)))>>,
          <<"tasks",
            IF ts = None THEN None
            ELSE Some([i \in DOMAIN OrEmpty(ts) |-> StrEach(OrEmpty(ts)[i])])>>,
          <<"acceptance_criteria",
            IF ac = None THEN None ELSE Some(StrEach(OrEmpty(ac)))>>,
          <<"copilot_prompts",
            IF cp = None THEN None ELSE Some(StrEach(OrEmpty(cp)))>>>>>>>>

\* json_str = json.dumps(final_dict, indent=4, default=str)
FinalJson(raw, pr, ec, ts, ac, cp) ==
    <<<<"metadata", Metadata(raw, pr, ec, ts, ac, cp)>>,
      <<"development_plan",
        JsonPlan(DevelopmentPlan(TasksDict(OrEmpty(ts), OrEmpty(ac), OrEmpty(cp))))>>>>

\* for ... in state.get(key, []): a key held with the value None is iterated as None,
\* which raises TypeError; an absent key gives the default [].
IteratesNone == tasks = None \/ acceptance_criteria = None \/ copilot_prompts = None

\* The node: computes the document from the state and returns {"final_json": json_str}.
generate_final_json_node ==
    /\ pc = "generate_final_json"
    /\ ~ IteratesNone
    /\ final_json' = Some(FinalJson(raw_text, parsed_requirements, estimated_complexities,
                                    tasks, acceptance_criteria, copilot_prompts))
    /\ prev_json' = final_json
    /\ agg_calls' = agg_calls + 1
    /\ NodeReturn("generate_final_json")
    /\ UNCHANGED <<raw_text, parsed_requirements, estimated_complexities, tasks,
                   acceptance_criteria, copilot_prompts, acc, task_names_response,
                   llm_calls, error>>
    /\ UNCHANGED <<llm_instance, agent_module, active, other, llm_threads>>

-----------------------------------------------------------------------------
(* The pipeline: one run of the compiled graph *)

Next ==
    \/ start
    \/ parse_req_node
    \/ estimate_complexity_call
    \/ estimate_complexity_node
    \/ generate_tasks_names_call
    \/ generate_tasks_detail_call
    \/ generate_tasks_node
    \/ create_acceptance_criteria_call
    \/ create_acceptance_criteria_node
    \/ generate_prompt_for_copilot_call
    \/ generate_copilot_prompts_node
    \/ generate_final_json_node
    \/ llm_invoke_raises

Spec == Init /\ [][Next]_vars

-----------------------------------------------------------------------------
(* Reading a JSON document back *)

-----------------------------------------------------------------------------
(* Two runs of the graph in one process.  Everything a run works on is its  *)
(* own: the state dict that agent.invoke threads through the nodes, and the *)
(* locals of the tool it is in.  The one object the runs have in common is  *)
(* the module-level instance behind get_llm.  The run that is executing     *)
(* owns the variables; the other run's state is parked in `other`, and the  *)
(* scheduler may switch between them before any step.                       *)

\* The local state of the executing run.
ThisRun ==
    [pc |-> pc, raw_text |-> raw_text, parsed_requirements |-> parsed_requirements,
     estimated_complexities |-> estimated_complexities, tasks |-> tasks,
     acceptance_criteria |-> acceptance_criteria, copilot_prompts |-> copilot_prompts,
     final_json |-> final_json, acc |-> acc, task_names_response |-> task_names_response,
     llm_calls |-> llm_calls, executed |-> executed, error |-> error,
     agg_calls |-> agg_calls, prev_json |-> prev_json]

\* agent.invoke({"raw_text": raw, ...}) as it starts.
FreshRun(raw) ==
    [pc |-> "START", raw_text |-> raw, parsed_requirements |-> None,
     estimated_complexities |-> None, tasks |-> None, acceptance_criteria |-> None,
     copilot_prompts |-> None, final_json |-> None, acc |-> <<>>,
     task_names_response |-> None, llm_calls |-> <<>>, executed |-> <<>>,
     error |-> None, agg_calls |-> 0, prev_json |-> None]

\* The raw text each of the two runs is invoked with.
RawTextOfRun == <<"Build a login page", "">>

\* The parse responses of the two-run specification: at most one feature, which
\* keeps the product of the two runs' states small.
ConcurrentParseResponses ==
    {ParsedRequirements(<<>>), ParsedRequirements(SubSeq(FeatureList, 1, 1))}

InitTwoRuns ==
    /\ pc = "START"
    /\ raw_text = RawTextOfRun[1]
    /\ parsed_requirements = None
    /\ estimated_complexities = None
    /\ tasks = None
    /\ acceptance_criteria = None
    /\ copilot_prompts = None
    /\ final_json = None
    /\ acc = <<>>
    /\ task_names_response = None
    /\ llm_calls = <<>>
    /\ executed = <<>>
    /\ error = None
    /\ agg_calls = 0
    /\ prev_json = None
    /\ llm_instance = None
    /\ llm_threads = <<>>
    /\ agent_module = "catalyst_agent.agent"
    /\ active = 1
    /\ other = Some(FreshRun(RawTextOfRun[2]))

\* Variant of switch: the list a tool accumulates is a module-level list, which the
\* run switched to finds as the other run left it.
switch_sharing_acc ==
    /\ other # None
    /\ other' = Some(ThisRun)
    /\ active' = 3 - active
    /\ pc' = other[1].pc
    /\ raw_text' = other[1].raw_text
    /\ parsed_requirements' = other[1].parsed_requirements
    /\ estimated_complexities' = other[1].estimated_complexities
    /\ tasks' = other[1].tasks
    /\ acceptance_criteria' = other[1].acceptance_criteria
    /\ copilot_prompts' = other[1].copilot_prompts
    /\ final_json' = other[1].final_json
    /\ task_names_response' = other[1].task_names_response
    /\ llm_calls' = other[1].llm_calls
    /\ executed' = other[1].executed
    /\ error' = other[1].error
    /\ agg_calls' = other[1].agg_calls
    /\ prev_json' = other[1].prev_json
    /\ UNCHANGED <<acc, llm_instance, agent_module, llm_threads>>

\* The scheduler hands the processor to the other run: each run finds its own state
\* dict and its own locals as it left them; only the get_llm instance is common.
switch ==
    /\ other # None
    /\ other' = Some(ThisRun)
    /\ active' = 3 - active
    /\ pc' = other[1].pc
    /\ raw_text' = other[1].raw_text
    /\ parsed_requirements' = other[1].parsed_requirements
    /\ estimated_complexities' = other[1].estimated_complexities
    /\ tasks' = other[1].tasks
    /\ acceptance_criteria' = other[1].acceptance_criteria
    /\ copilot_prompts' = other[1].copilot_prompts
    /\ final_json' = other[1].final_json
    /\ acc' = other[1].acc
    /\ task_names_response' = other[1].task_names_response
    /\ llm_calls' = other[1].llm_calls
    /\ executed' = other[1].executed
    /\ error' = other[1].error
    /\ agg_calls' = other[1].agg_calls
    /\ prev_json' = other[1].prev_json
    /\ UNCHANGED <<llm_instance, agent_module, llm_threads>>

\* parse_req_node with a response of ConcurrentParseResponses.
parse_req_node_concurrent ==
    /\ parse_req_node
    /\ parsed_requirements' \in {Some(r) : r \in ConcurrentParseResponses}

NextTwoRuns ==
    \/ switch
    \/ start
    \/ parse_req_node_concurrent
    \/ estimate_complexity_call
    \/ estimate_complexity_node
    \/ generate_tasks_names_call
    \/ generate_tasks_detail_call
    \/ generate_tasks_node
    \/ create_acceptance_criteria_call
    \/ create_acceptance_criteria_node
    \/ generate_prompt_for_copilot_call
    \/ generate_copilot_prompts_node
    \/ generate_final_json_node
    \/ llm_invoke_raises

SpecTwoRuns == InitTwoRuns /\ [][NextTwoRuns]_vars

-----------------------------------------------------------------------------
(* The agent that log_agent_to_mlflow loads from mlflow_logging/agent_model.py *)
(* (AGENT_MODEL_PATH, resolved against the script's directory), tests with   *)
(* agent.invoke(sample_input) and logs.                                      *)

AgentModules == {"catalyst_agent.agent", "mlflow_logging.agent_model"}

\* workflow.add_edge(START, "parse"); workflow.add_edge("parse", END)
LoggedEdges == {<<"START", "parse">>, <<"parse", "END">>}

InitLogged ==
    /\ pc = "START"
    /\ raw_text \in RawTexts
    /\ parsed_requirements = None
    /\ estimated_complexities = None
    /\ tasks = None
    /\ acceptance_criteria = None
    /\ copilot_prompts = None
    /\ final_json = None
    /\ acc = <<>>
    /\ task_names_response = None
    /\ llm_calls = <<>>
    /\ executed = <<>>
    /\ error = None
    /\ agg_calls = 0
    /\ prev_json = None
    /\ llm_instance = None
    /\ llm_threads = <<>>
    /\ agent_module \in AgentModules
    /\ active = 1
    /\ other = None

logged_start ==
    /\ agent_module = "mlflow_logging.agent_model"
    /\ pc = "START"
    /\ \E e \in LoggedEdges : e[1] = "START" /\ pc' = e[2]
    /\ UNCHANGED <<slots, acc, task_names_response, llm_calls, executed, error,
                   agg_calls, prev_json, llm_instance, agent_module, active, other, llm_threads>>

\* parse_node: the text is read with state.get("raw_requirement", ""), a key the
\* input does not hold, and the result is returned under "parsed_data", which is not
\* a key of AgentState.  The graph drops the update: no slot is written.
parse_node ==
    /\ pc = "parse"
    /\ \E r \in ParseResponses : Invoke(r)
    /\ \E e \in LoggedEdges : e[1] = "parse" /\ pc' = e[2]
    /\ executed' = Append(executed, "parse")
    /\ UNCHANGED <<slots, acc, task_names_response, error, agg_calls, prev_json,
                   agent_module, active, other, llm_threads>>

\* parse_node, when the graph rejects an update that writes none of the state's keys
\* (InvalidUpdateError) instead of dropping it.
parse_node_invalid_update ==
    /\ pc = "parse"
    /\ \E r \in ParseResponses : Invoke(r)
    /\ pc' = "FAILED"
    /\ error' = Some([node |-> "parse", schema |-> "InvalidUpdateError", index |-> 0])
    /\ UNCHANGED <<slots, acc, task_names_response, executed, agg_calls, prev_json,
                   agent_module, active, other, llm_threads>>

NextLogged ==
    \/ Next
    \/ logged_start
    \/ parse_node
    \/ parse_node_invalid_update

SpecLogged == InitLogged /\ [][NextLogged]_vars

-----------------------------------------------------------------------------
(* The three zipping stages started on inputs of unequal lengths: the tools *)
(* check nothing, so a caller (or an earlier stage of another design) may   *)
(* hand them sequences that are not aligned.                                *)

ComplexityList == <<EstimatedComplexity("easy", 2), EstimatedComplexity("hard", 9),
                    EstimatedComplexity("medium", 5), EstimatedComplexity("very_hard", 20)>>

GroupList == <<<<BuildForm>>, <<AddTests>>, <<BuildForm, AddTests>>, <<>>>>

FeatureCriteriaList == <<FeatureAcceptanceCriteria(<<CritBuild>>),
                         FeatureAcceptanceCriteria(<<CritTests>>),
                         FeatureAcceptanceCriteria(<<CritBuild, CritTests>>),
                         FeatureAcceptanceCriteria(<<CritDeploy>>)>>

ZippingStages == {"generate_tasks", "create_acceptance_criteria", "generate_copilot_prompts"}

InitMisaligned ==
    /\ pc \in ZippingStages
    /\ raw_text = "Build a login page"
    /\ \E n \in 0..MaxFeatures :
          parsed_requirements = Some(ParsedRequirements(SubSeq(FeatureList, 1, n)))
    /\ \E m \in 0..MaxFeatures :
          estimated_complexities = Some(SubSeq(ComplexityList, 1, m))
    /\ IF pc = "generate_tasks" THEN tasks = None
       ELSE \E k \in 0..MaxFeatures : tasks = Some(SubSeq(GroupList, 1, k))
    /\ IF pc = "generate_copilot_prompts"
       THEN \E l \in 0..MaxFeatures :
               acceptance_criteria = Some(SubSeq(FeatureCriteriaList, 1, l))
       ELSE acceptance_criteria = None
    /\ copilot_prompts = None
    /\ final_json = None
    /\ acc = <<>>
    /\ task_names_response = None
    /\ llm_calls = <<>>
    /\ executed = <<>>
    /\ error = None
    /\ agg_calls = 0
    /\ prev_json = None
    /\ llm_instance = Some("AzureLLM")
    /\ llm_threads = <<>>
    /\ agent_module = "catalyst_agent.agent"
    /\ active = 1
    /\ other = None

NextMisaligned ==
    \/ generate_tasks_names_call
    \/ generate_tasks_detail_call
    \/ generate_tasks_node
    \/ create_acceptance_criteria_call
    \/ create_acceptance_criteria_node
    \/ generate_prompt_for_copilot_call
    \/ generate_copilot_prompts_node

SpecMisaligned == InitMisaligned /\ [][NextMisaligned]_vars

JsonKeys(obj) == {obj[i][1] : i \in DOMAIN obj}
JsonGet(obj, k) == obj[CHOOSE i \in DOMAIN obj : obj[i][1] = k][2]

-----------------------------------------------------------------------------
(* The aggregator called directly, as a function of a fixed pipeline state. *)
(* The state is any state the five stages can hand over: one complexity,   *)
(* one task group, one FeatureAcceptanceCriteria and one                   *)
(* FeatureCopilotPrompts per feature, with whatever titles the generation  *)
(* capability chose; or a partial state, whose later slots are None or     *)
(* whose keys are absent.                                                  *)

TaskGroups == {<<>>, <<BuildForm, AddTests>>, <<AddTests, BuildForm2>>,
               <<BuildForm, BuildForm2>>}

CriteriaLists == {<<CritBuild, CritTests>>, <<CritBuild2>>, <<CritDeploy, CritTests>>}

PromptLists == {<<PromptBuild, PromptTests>>, <<PromptBuild2, PromptDeploy>>}

InitAgg ==
    /\ pc = "DIRECT"
    /\ raw_text = "Build a login page"
    /\ \/ \E n \in 0..MaxFeatures :
             /\ parsed_requirements = Some(ParsedRequirements(SubSeq(FeatureList, 1, n)))
             /\ estimated_complexities = Some([i \in 1..n |-> EstimatedComplexity("easy", 2)])
             /\ \E ts \in [1..n -> TaskGroups] : tasks = Some(ts)
             /\ \E ac \in [1..n -> CriteriaLists] :
                   acceptance_criteria = Some([i \in 1..n |-> FeatureAcceptanceCriteria(ac[i])])
             /\ \E cp \in [1..n -> PromptLists] :
                   copilot_prompts = Some([i \in 1..n |-> FeatureCopilotPrompts(cp[i])])
       \/ /\ parsed_requirements
                \in {Absent, None, Some(ParsedRequirements(SubSeq(FeatureList, 1, 1)))}
          /\ estimated_complexities \in {Absent, None}
          /\ tasks \in {Absent, None, Some(<<>>), Some(<<<<BuildForm, AddTests>>>>)}
          /\ acceptance_criteria \in {Absent, None}
          /\ copilot_prompts = Absent
    /\ final_json = None
    /\ acc = <<>>
    /\ task_names_response = None
    /\ llm_calls = <<>>
    /\ executed = <<>>
    /\ error = None
    /\ agg_calls = 0
    /\ prev_json = None
    /\ llm_instance = None
    /\ llm_threads = <<>>
    /\ agent_module = "catalyst_agent.agent"
    /\ active = 1
    /\ other = None

\* generate_final_json_node(state), called a first and a second time on the same state.
call_generate_final_json_node ==
    /\ pc = "DIRECT"
    /\ agg_calls < 2
    /\ ~ IteratesNone
    /\ final_json' = Some(FinalJson(raw_text, parsed_requirements, estimated_complexities,
                                    tasks, acceptance_criteria, copilot_prompts))
    /\ prev_json' = final_json
    /\ agg_calls' = agg_calls + 1
    /\ UNCHANGED <<pc, raw_text, parsed_requirements, estimated_complexities, tasks,
                   acceptance_criteria, copilot_prompts, acc, task_names_response,
                   llm_calls, executed, error>>
    /\ UNCHANGED <<llm_instance, agent_module, active, other, llm_threads>>

\* The direct call on a state holding None where a loop expects a list: TypeError.
call_generate_final_json_node_raises ==
    /\ pc = "DIRECT"
    /\ IteratesNone
    /\ pc' = "FAILED"
    /\ error' = Some([node |-> "generate_final_json", schema |-> "TypeError", index |-> 0])
    /\ UNCHANGED <<slots, acc, task_names_response, llm_calls, executed, agg_calls,
                   prev_json, llm_instance, agent_module, active, other, llm_threads>>

NextAgg ==
    \/ call_generate_final_json_node
    \/ call_generate_final_json_node_raises

SpecAgg == InitAgg /\ [][NextAgg]_vars

-----------------------------------------------------------------------------
(* Properties *)

StageOrder == <<"parse_requirements", "estimate_complexity", "generate_tasks",
                "create_acceptance_criteria", "generate_copilot_prompts",
                "generate_final_json">>

IsPrefix(s, t) == Len(s) <= Len(t) /\ SubSeq(t, 1, Len(s)) = s

Position(node) == CHOOSE i \in DOMAIN StageOrder : StageOrder[i] = node

\* The slot each node writes.
SlotOf(node) ==
    CASE node = "parse_requirements" -> parsed_requirements
      [] node = "estimate_complexity" -> estimated_complexities
      [] node = "generate_tasks" -> tasks
      [] node = "create_acceptance_criteria" -> acceptance_criteria
      [] node = "generate_copilot_prompts" -> copilot_prompts
      [] node = "generate_final_json" -> final_json

\* The positions in the call history of the calls made for loop position i with a schema.
CallsFor(schema, i) ==
    {k \in DOMAIN llm_calls : llm_calls[k].schema = schema /\ llm_calls[k].index = i}

C2_FailureAbortsRun ==
    (\E k \in DOMAIN llm_calls : llm_calls[k].outcome = "raised") =>
        LET k == CHOOSE i \in DOMAIN llm_calls : llm_calls[i].outcome = "raised"
            c == llm_calls[k]
        IN  /\ k = Len(llm_calls)
            /\ pc = "FAILED"
            /\ error = Some([node |-> c.node, schema |-> c.schema, index |-> c.index])
            /\ \A j \in Position(c.node)..Len(StageOrder) : SlotOf(StageOrder[j]) = None
            /\ executed = SubSeq(StageOrder, 1, Position(c.node) - 1)
            /\ ~ ENABLED Next

C2_Witness ==
    /\ pc = "FAILED"
    /\ error # None
    /\ error[1].node = "generate_tasks"
    /\ error[1].schema = "TaskList"
    /\ error[1].index = 2

\* C3: when the Estimate stage has succeeded, estimated_complexities has one value per
\* parsed feature, and its i-th value is the response of the one call made for the
\* i-th feature.
C3_EstimateAligned ==
    estimated_complexities # None =>
        /\ Len(estimated_complexities[1]) = Len(Features)
        /\ \A i \in DOMAIN Features :
              /\ Cardinality(CallsFor("EstimatedComplexity", i)) = 1
              /\ \A k \in CallsFor("EstimatedComplexity", i) :
                    /\ llm_calls[k].request[1] = Features[i]
                    /\ llm_calls[k].response = Some(estimated_complexities[1][i])

C3_Witness ==
    /\ estimated_complexities # None
    /\ Len(estimated_complexities[1]) = 2
    /\ estimated_complexities[1][1] # estimated_complexities[1][2]

\* The names the first (names-only) call of generate_tasks returned for feature i.
StepOneNames(i) ==
    UNION {Range(llm_calls[k].response[1].tasks) : k \in CallsFor("TaskNameList", i)}

\* The names the names-only call of generate_tasks returned for feature i, as the
\* sequence returned.
StepOneNamesSeq(i) ==
    llm_calls[CHOOSE k \in CallsFor("TaskNameList", i) : TRUE].response[1].tasks

\* C4: every title of a task the Decompose stage emitted for a feature is one of the
\* names its names-only call returned for that feature.
C4_TaskTitleClosure ==
    tasks # None =>
        \A i \in DOMAIN tasks[1] :
            \A j \in DOMAIN tasks[1][i] : tasks[1][i][j].title \in StepOneNames(i)

-----------------------------------------------------------------------------
(* Properties of the final document *)

Doc == final_json[1]
Plan == JsonGet(Doc, "development_plan")
Meta == JsonGet(Doc, "metadata")

\* The <<phase, title>> pairs of the task entries of the document.
DocEntries == UNION {{<<ph, t>> : t \in JsonKeys(JsonGet(Plan, ph))} : ph \in JsonKeys(Plan)}
DocRecord(e) == JsonGet(JsonGet(Plan, e[1]), e[2])

\* What the aggregator reads from the state.
StateTasks == Flatten(OrEmpty(tasks))
StateCriteria == AllCriteria(OrEmpty(acceptance_criteria))
StatePrompts == AllPrompts(OrEmpty(copilot_prompts))
TaskTitles == {StateTasks[i].title : i \in DOMAIN StateTasks}

\* The intermediate task map before any enrichment, after the first k criteria, and
\* after all criteria and the first k prompts.
TaskMap == GatherTasks(StateTasks, EmptyDict)
AfterCriteria(k) == AddCriteria(SubSeq(StateCriteria, 1, k), TaskMap)
AfterPrompts(k) == AddPrompts(SubSeq(StatePrompts, 1, k), AfterCriteria(Len(StateCriteria)))

\* C5: processing a TaskAcceptanceCriteria whose title X is a key of the intermediate
\* map sets X's acceptance_criteria, unit_tests and integration_tests to its values and
\* changes no other entry; in the document an entry matched by exactly one
\* TaskAcceptanceCriteria carries its values, and an entry matched by none has
\* acceptance_criteria null and both test lists empty.
C5_JoinCorrectness ==
    final_json # None =>
        /\ \A k \in DOMAIN StateCriteria :
              LET tc == StateCriteria[k]
                  old == AfterCriteria(k - 1)
                  new == AfterCriteria(k)
              IN  HasKey(TaskMap, tc.task_title) =>
                      /\ new.map[tc.task_title].acceptance_criteria = Some(tc.acceptance_criteria)
                      /\ new.map[tc.task_title].unit_tests = tc.unit_tests
                      /\ new.map[tc.task_title].integration_tests = tc.integration_tests
                      /\ new.keys = old.keys
                      /\ \A t \in DOMAIN old.map \ {tc.task_title} : new.map[t] = old.map[t]
        /\ \A e \in DocEntries :
              LET m == {k \in DOMAIN StateCriteria : StateCriteria[k].task_title = e[2]}
                  r == DocRecord(e)
              IN  /\ m = {} =>
                         /\ JsonGet(r, "acceptance_criteria") = None
                         /\ JsonGet(r, "unit_tests") = <<>>
                         /\ JsonGet(r, "integration_tests") = <<>>
                  /\ \A k \in m : Cardinality(m) = 1 =>
                         /\ JsonGet(r, "acceptance_criteria")
                               = Some(StrEach(StateCriteria[k].acceptance_criteria))
                         /\ JsonGet(r, "unit_tests") = StrEach(StateCriteria[k].unit_tests)
                         /\ JsonGet(r, "integration_tests")
                               = StrEach(StateCriteria[k].integration_tests)

C5_Witness ==
    /\ final_json # None
    /\ Len(StateCriteria) = 1
    /\ StateCriteria[1].integration_tests # <<>>
    /\ \E e \in DocEntries : JsonGet(DocRecord(e), "integration_tests") # <<>>
    /\ \E e \in DocEntries : JsonGet(DocRecord(e), "acceptance_criteria") = None

\* The titles of criteria and prompts that are absent from the task map.
MissedTitles ==
    ({StateCriteria[k].task_title : k \in DOMAIN StateCriteria}
        \cup {StatePrompts[k].task_title : k \in DOMAIN StatePrompts}) \ TaskTitles

\* C6: every call of the aggregator returns a document, whatever titles the criteria
\* and prompts carry; processing a TaskAcceptanceCriteria or task prompt whose title
\* is absent from the intermediate map leaves the map as it was; and the document
\* has no entry, in any phase bucket, for a title that no task carries.
C6_JoinMissNonFatal ==
    /\ agg_calls > 0 => final_json # None
    /\ final_json # None =>
        /\ \A k \in DOMAIN StateCriteria :
              ~ HasKey(TaskMap, StateCriteria[k].task_title) =>
                  AfterCriteria(k) = AfterCriteria(k - 1)
        /\ \A k \in DOMAIN StatePrompts :
              ~ HasKey(TaskMap, StatePrompts[k].task_title) =>
                  AfterPrompts(k) = AfterPrompts(k - 1)
        /\ \A e \in DocEntries : e[2] \in TaskTitles /\ e[2] \notin MissedTitles

C6_Witness ==
    /\ final_json # None
    /\ "Deploy" \in {StateCriteria[k].task_title : k \in DOMAIN StateCriteria}
    /\ "Deploy" \in {StatePrompts[k].task_title : k \in DOMAIN StatePrompts}
    /\ "Deploy" \in MissedTitles
    /\ DocEntries # {}

\* C7: in every final document the keys of development_plan are the phase values, one
\* key per value, whether or not a task was put under it.
C7_PhaseKeysComplete ==
    final_json # None =>
        /\ \A i \in DOMAIN ProjectPhase : ProjectPhase[i] \in JsonKeys(Plan)
        /\ [i \in DOMAIN Plan |-> Plan[i][1]] = ProjectPhase

C7_Witness ==
    /\ final_json # None
    /\ JsonGet(Plan, "documentation") = <<>>
    /\ JsonGet(Plan, "testing") # <<>>

\* The end-to-end scenario: one feature, one complexity, step-1 names "Build form" and
\* "Add tests", two detailed tasks with those titles in phases implementation and
\* testing, acceptance criteria for both titles and one prompt per title.
EndToEndScenario ==
    /\ pc = "END"
    /\ Len(Features) = 1
    /\ Len(estimated_complexities[1]) = 1
    /\ \A k \in CallsFor("TaskNameList", 1) :
          llm_calls[k].response[1].tasks = <<"Build form", "Add tests">>
    /\ Len(tasks[1]) = 1
    /\ Len(tasks[1][1]) = 2
    /\ tasks[1][1][1].title = "Build form" /\ tasks[1][1][1].phase = "implementation"
    /\ tasks[1][1][2].title = "Add tests" /\ tasks[1][1][2].phase = "testing"
    /\ {StateCriteria[k].task_title : k \in DOMAIN StateCriteria} = {"Build form", "Add tests"}
    /\ Len(StatePrompts) = 2
    /\ {StatePrompts[k].task_title : k \in DOMAIN StatePrompts} = {"Build form", "Add tests"}

\* C8: in the end-to-end scenario the final document holds exactly two task entries,
\* "Build form" under implementation and "Add tests" under testing, each with
\* non-null acceptance_criteria and non-null copilot_prompt.
C8_EndToEnd ==
    EndToEndScenario =>
        /\ final_json # None
        /\ DocEntries = {<<"implementation", "Build form">>, <<"testing", "Add tests">>}
        /\ \A e \in DocEntries :
              /\ JsonGet(DocRecord(e), "acceptance_criteria") # None
              /\ JsonGet(DocRecord(e), "copilot_prompt") # None

C8_Witness == EndToEndScenario /\ raw_text = "Build a login page"

\* C9: with raw text "" and a parse response without features, the run cannot fail
\* after Parse, stages 2-5 each write an empty sequence, and the final document has
\* every phase key with an empty record set and num_features = 0, num_tasks = 0.
C9_EmptyInput ==
    (raw_text = "" /\ parsed_requirements # None /\ Features = <<>>) =>
        /\ pc # "FAILED"
        /\ \A j \in 2..5 : (Len(executed) >= j) => SlotOf(StageOrder[j]) = Some(<<>>)
        /\ pc = "END" =>
              /\ final_json # None
              /\ \A i \in DOMAIN ProjectPhase :
                    /\ ProjectPhase[i] \in JsonKeys(Plan)
                    /\ JsonGet(Plan, ProjectPhase[i]) = <<>>
              /\ JsonGet(Meta, "num_features") = 0
              /\ JsonGet(Meta, "num_tasks") = 0

C9_Witness == raw_text = "" /\ parsed_requirements # None /\ Features = <<>> /\ pc = "END"

-----------------------------------------------------------------------------
(* Bucketing, metadata, frame and slot order *)

\* The intermediate task map when the three loops of the aggregator have run.
FinalTaskMap == AfterPrompts(Len(StatePrompts))

RecordFields == <<"description", "priority", "dependencies", "acceptance_criteria",
                  "unit_tests", "integration_tests", "copilot_prompt">>

\* C11: every call of the aggregator yields a document, and in it every entry of the
\* intermediate task map appears in exactly one phase bucket, the bucket of the
\* entry's own phase, as a record with the members description, priority,
\* dependencies, acceptance_criteria, unit_tests, integration_tests and copilot_prompt
\* (the first three with the entry's values); no bucket lists a title twice and no
\* bucket holds a title that is not in the map.
C11_EveryEntryBucketed ==
    /\ agg_calls > 0 => final_json # None
    /\ final_json # None =>
        /\ \A t \in DOMAIN FinalTaskMap.map :
              {e \in DocEntries : e[2] = t} = {<<FinalTaskMap.map[t].phase, t>>}
        /\ \A e \in DocEntries :
              /\ e[2] \in DOMAIN FinalTaskMap.map
              /\ [i \in DOMAIN DocRecord(e) |-> DocRecord(e)[i][1]] = RecordFields
              /\ JsonGet(DocRecord(e), "description") = FinalTaskMap.map[e[2]].description
              /\ JsonGet(DocRecord(e), "priority") = FinalTaskMap.map[e[2]].priority
              /\ JsonGet(DocRecord(e), "dependencies") = FinalTaskMap.map[e[2]].dependencies
        /\ \A ph \in JsonKeys(Plan) :
              Cardinality(JsonKeys(JsonGet(Plan, ph))) = Len(JsonGet(Plan, ph))

C11_Witness ==
    /\ final_json # None
    /\ \E i \in DOMAIN StateTasks : StateTasks[i] = BuildForm
    /\ DocEntries = {<<"setup", "Build form">>, <<"testing", "Add tests">>}

\* C12: the top-level keys of the document are metadata and development_plan;
\* metadata.original_text is the state's raw_text, num_features is the number of
\* parsed features (0 when parsed_requirements is absent or None) and num_tasks is the
\* number of tasks of all groups together (0 when tasks is absent or has no group).
C12_MetadataCounts ==
    final_json # None =>
        /\ [i \in DOMAIN Doc |-> Doc[i][1]] = <<"metadata", "development_plan">>
        /\ JsonGet(Meta, "original_text") = raw_text
        /\ JsonGet(Meta, "num_features") = Len(Features)
        /\ JsonGet(Meta, "num_tasks") = Len(StateTasks)
        /\ parsed_requirements \in {Absent, None} => JsonGet(Meta, "num_features") = 0
        /\ tasks \in {Absent, Some(<<>>)} => JsonGet(Meta, "num_tasks") = 0

C12_Witness ==
    /\ final_json # None
    /\ parsed_requirements # Absent /\ Len(Features) = 2
    /\ tasks # Absent /\ Len(tasks[1]) = 2
    /\ JsonGet(Meta, "num_tasks") = 4

C14_SlotsSetInOrder ==
    /\ \A j \in DOMAIN StageOrder : (SlotOf(StageOrder[j]) # None) <=> (j <= Len(executed))
    /\ \A j \in DOMAIN StageOrder : SlotOf(StageOrder[j]) # Absent
    /\ pc \in Nodes =>
          /\ \A i \in 1..(Position(pc) - 1) : SlotOf(StageOrder[i]) # None
          /\ SlotOf(pc) = None
    /\ pc = "END" => \A n \in Nodes : SlotOf(n) # None

C14_Witness ==
    /\ pc = "generate_copilot_prompts"
    /\ Len(acc) = 1
    /\ Len(Features) = 2
    /\ acceptance_criteria # None
    /\ copilot_prompts = None
    /\ final_json = None

\* The position, in the order the aggregator walks the tasks (features in order, the
\* tasks of a group in order), of the last task carrying title t.
LastWithTitle(t) ==
    CHOOSE i \in DOMAIN StateTasks :
        /\ StateTasks[i].title = t
        /\ \A j \in DOMAIN StateTasks : StateTasks[j].title = t => j <= i

\* C15: when several tasks carry the same title, the intermediate map holds one entry
\* for the title, whose description, priority, dependencies and phase are those of
\* the last such task in tasks order; the document then shows that title once, under
\* that task's phase and with its description; the call returns a document.
C15_LaterTaskOverwrites ==
    final_json # None =>
        \A t \in TaskTitles :
            LET task == StateTasks[LastWithTitle(t)]
            IN  /\ Cardinality({k \in DOMAIN TaskMap.keys : TaskMap.keys[k] = t}) = 1
                /\ TaskMap.map[t].description = task.description
                /\ TaskMap.map[t].priority = task.priority
                /\ TaskMap.map[t].dependencies = task.dependencies
                /\ TaskMap.map[t].phase = task.phase
                /\ {e \in DocEntries : e[2] = t} = {<<task.phase, t>>}
                /\ JsonGet(DocRecord(<<task.phase, t>>), "description") = task.description

C15_Witness ==
    /\ final_json # None
    /\ tasks # Absent /\ Len(tasks[1]) = 2
    /\ tasks[1][1] = <<BuildForm, AddTests>>
    /\ tasks[1][2] = <<AddTests, BuildForm2>>
    /\ JsonGet(DocRecord(<<"setup", "Build form">>), "description") = BuildForm2.description

-----------------------------------------------------------------------------
(* Positional alignment of the stage outputs *)

\* The result kept from a response: the task list of a TaskList, the response itself
\* for the other schemas.
Kept(schema, response) == IF schema = "TaskList" THEN response.tasks ELSE response

\* The per-feature stages: the node, the schema of the call whose result is kept.
PerFeatureStages == {<<"estimate_complexity", "EstimatedComplexity">>,
                     <<"generate_tasks", "TaskList">>,
                     <<"create_acceptance_criteria", "FeatureAcceptanceCriteria">>,
                     <<"generate_copilot_prompts", "FeatureCopilotPrompts">>}

\* Position i of the list holds what the one returned call made for feature i with the
\* schema returned.
AlignedWithCalls(list, schema) ==
    \A i \in DOMAIN list :
        LET made == CallsFor(schema, i)
        IN  /\ i \in DOMAIN Features
            /\ Cardinality(made) = 1
            /\ \A k \in made :
                  /\ llm_calls[k].outcome = "returned"
                  /\ llm_calls[k].request[1] = Features[i]
                  /\ list[i] = Kept(schema, llm_calls[k].response[1])

\* C16: in each of the four per-feature stages, position i of the list being
\* assembled, and of the slot once written, holds the result of the call made for
\* feature i; the calls of a stage are made, and return, one at a time in feature
\* order, which is the only completion order the sequential loops have.
C16_ResultsInFeatureOrder ==
    /\ \A st \in PerFeatureStages :
          /\ SlotOf(st[1]) # None => AlignedWithCalls(SlotOf(st[1])[1], st[2])
          /\ pc = st[1] => AlignedWithCalls(acc, st[2])
    /\ \A l \in DOMAIN llm_calls : \A k \in 1..(l - 1) :
          llm_calls[k].schema = llm_calls[l].schema
              => llm_calls[k].index < llm_calls[l].index

C16_Witness ==
    /\ copilot_prompts # None
    /\ Len(acceptance_criteria[1]) = 2
    /\ acceptance_criteria[1][1] # acceptance_criteria[1][2]
    /\ tasks[1][1] # tasks[1][2]

-----------------------------------------------------------------------------
(* Independence of two runs *)

\* What run r kept of the calls it made with a schema and that returned, in the order
\* it made them.
ReplayList(r, schema) ==
    LET returned == SelectSeq(r.llm_calls,
                              LAMBDA c : c.schema = schema /\ c.outcome = "returned")
    IN  [i \in DOMAIN returned |-> Kept(schema, returned[i].response[1])]

\* The slots of a run that is alone in the process, is invoked with raw, has completed
\* the nodes r has completed and was given the results r was given.
RunAlone(r, raw) ==
    LET done(n) == \E i \in DOMAIN r.executed : r.executed[i] = n
        pr == IF done("parse_requirements")
              THEN Some(ReplayList(r, "ParsedRequirements")[1]) ELSE None
        ec == IF done("estimate_complexity")
              THEN Some(ReplayList(r, "EstimatedComplexity")) ELSE None
        ts == IF done("generate_tasks") THEN Some(ReplayList(r, "TaskList")) ELSE None
        ac == IF done("create_acceptance_criteria")
              THEN Some(ReplayList(r, "FeatureAcceptanceCriteria")) ELSE None
        cp == IF done("generate_copilot_prompts")
              THEN Some(ReplayList(r, "FeatureCopilotPrompts")) ELSE None
        fj == IF done("generate_final_json")
              THEN Some(FinalJson(raw, pr, ec, ts, ac, cp)) ELSE None
    IN  <<raw, pr, ec, ts, ac, cp, fj>>

SlotsOfRun(r) ==
    <<r.raw_text, r.parsed_requirements, r.estimated_complexities, r.tasks,
      r.acceptance_criteria, r.copilot_prompts, r.final_json>>

\* Every call of run r was built from r's own input: the parse call from its raw
\* text, a per-feature call from the feature of its own parsed requirements.
OwnRequests(r, raw) ==
    \A k \in DOMAIN r.llm_calls :
        LET call == r.llm_calls[k]
        IN  IF call.schema = "ParsedRequirements" THEN call.request = raw
            ELSE /\ r.parsed_requirements # None
                 /\ call.index \in DOMAIN r.parsed_requirements[1].features
                 /\ call.request[1] = r.parsed_requirements[1].features[call.index]

-----------------------------------------------------------------------------
(* The logged agent against the production agent *)

\* C18: a run of the agent built by mlflow_logging.agent_model executes the stages
\* parse_requirements, estimate_complexity, generate_tasks,
\* create_acceptance_criteria, generate_copilot_prompts in that order before END, as
\* the agent built by catalyst_agent.agent does, reads its text from raw_text, and
\* ends with the five slots set.
C18_LoggedAgentIsProductionAgent ==
    agent_module = "mlflow_logging.agent_model" =>
        /\ \A k \in DOMAIN llm_calls :
              llm_calls[k].schema = "ParsedRequirements" => llm_calls[k].request = raw_text
        /\ pc = "END" =>
              /\ IsPrefix(SubSeq(StageOrder, 1, 5), executed)
              /\ \A j \in 1..5 : SlotOf(StageOrder[j]) # None

-----------------------------------------------------------------------------
(* The Decompose stage and misaligned inputs *)

\* C19: when the Decompose stage has returned, tasks has one group per feature (the
\* features and complexities it was given being equally many); for each feature i
\* one names call was made with feature i and complexity i, then one detail call
\* with feature i and the names returned, and group i is the task list of that
\* detail call's response.
C19_OneGroupPerFeature ==
    tasks # None =>
        /\ Len(OrEmpty(estimated_complexities)) = Len(Features)
        /\ Len(tasks[1]) = Len(Features)
        /\ \A i \in DOMAIN Features :
              \E n \in CallsFor("TaskNameList", i), d \in CallsFor("TaskList", i) :
                  /\ CallsFor("TaskNameList", i) = {n}
                  /\ CallsFor("TaskList", i) = {d}
                  /\ n < d
                  /\ llm_calls[n].request = <<Features[i], estimated_complexities[1][i]>>
                  /\ llm_calls[d].request = <<Features[i], llm_calls[n].response[1].tasks>>
                  /\ tasks[1][i] = llm_calls[d].response[1].tasks

C19_Witness ==
    /\ tasks # None
    /\ Len(tasks[1]) = 2
    /\ tasks[1][1] = <<>>
    /\ tasks[1][2] = <<BuildForm, AddTests>>
    /\ estimated_complexities[1][1] # estimated_complexities[1][2]

\* The smallest of a set of lengths.
Shortest(lens) == CHOOSE p \in lens : \A q \in lens : p <= q

\* Entry i of out is the result of the one call made with the schema for position i,
\* and the request of that call pairs the items at position i of the inputs; no call
\* was made with the schema for a position past the end of out.
PairedByPosition(out, schema, inputs) ==
    /\ \A i \in DOMAIN out :
          \E k \in CallsFor(schema, i) :
              /\ CallsFor(schema, i) = {k}
              /\ llm_calls[k].request = [j \in DOMAIN inputs |-> inputs[j][i]]
              /\ out[i] = Kept(schema, llm_calls[k].response[1])
    /\ \A k \in DOMAIN llm_calls :
          llm_calls[k].schema = schema => llm_calls[k].index <= Len(out)

\* C20: started on sequences of unequal lengths, no stage raises; generate_tasks
\* returns as many groups as the shorter of features and complexities,
\* create_acceptance_criteria as many entries as the shorter of features and tasks,
\* generate_prompt_for_copilot as many as the shortest of features, tasks and
\* acceptance_criteria; entry i pairs the items at position i, and no call is made
\* for a position past the shortest sequence.
C20_ZipTruncates ==
    LET done(n) == \E i \in DOMAIN executed : executed[i] = n
        ec == OrEmpty(estimated_complexities)
        ts == OrEmpty(tasks)
        ac == OrEmpty(acceptance_criteria)
        cp == OrEmpty(copilot_prompts)
    IN  /\ pc # "FAILED" /\ error = None
        /\ done("generate_tasks") =>
              /\ Len(ts) = Shortest({Len(Features), Len(ec)})
              /\ PairedByPosition([i \in DOMAIN ts |-> [tasks |-> StepOneNamesSeq(i)]],
                                  "TaskNameList", <<Features, ec>>)
              /\ PairedByPosition(ts, "TaskList",
                                  <<Features, [i \in DOMAIN ts |-> StepOneNamesSeq(i)]>>)
        /\ done("create_acceptance_criteria") =>
              /\ Len(ac) = Shortest({Len(Features), Len(ts)})
              /\ PairedByPosition(ac, "FeatureAcceptanceCriteria", <<Features, ts>>)
        /\ done("generate_copilot_prompts") =>
              /\ Len(cp) = Shortest({Len(Features), Len(ts), Len(ac)})
              /\ PairedByPosition(cp, "FeatureCopilotPrompts", <<Features, ts, ac>>)

C20_Witness ==
    /\ \E i \in DOMAIN executed : executed[i] = "generate_copilot_prompts"
    /\ Len(Features) = 2
    /\ Len(tasks[1]) = 1
    /\ Len(acceptance_criteria[1]) = 2
    /\ Len(copilot_prompts[1]) = 1

-----------------------------------------------------------------------------
(* The two calls of the Decompose stage *)

\* The calls of the history made by generate_tasks, in the order made.
DecomposeCalls == SelectSeq(llm_calls, LAMBDA c : c.node = "generate_tasks")

\* C21: at every moment of a run the calls of the Decompose stage alternate, feature
\* by feature: call 2i-1 is the names-only call for feature i, call 2i is the detail
\* call for feature i; a detail call is made only after the names call of the same
\* feature has returned, its prompt lists exactly the names that call returned, in
\* the order returned, and there is one detail call per feature whatever the number
\* of names (never one per name).
C21_NamesThenOneDetailCall ==
    \A k \in DOMAIN DecomposeCalls :
        LET c == DecomposeCalls[k]
        IN  IF k % 2 = 1
            THEN /\ c.schema = "TaskNameList"
                 /\ c.index = (k + 1) \div 2
                 /\ k > 1 => DecomposeCalls[k - 1].outcome = "returned"
            ELSE LET n == DecomposeCalls[k - 1]
                 IN  /\ c.schema = "TaskList"
                     /\ c.index = k \div 2
                     /\ n.schema = "TaskNameList"
                     /\ n.index = c.index
                     /\ n.outcome = "returned"
                     /\ c.request[1] = n.request[1]
                     /\ c.request[2] = n.response[1].tasks
                     /\ Cardinality(CallsFor("TaskList", c.index)) = 1

C21_Witness ==
    /\ tasks # None
    /\ Len(DecomposeCalls) = 4
    /\ DecomposeCalls[1].response[1].tasks = <<"Build form", "Add tests">>
    /\ DecomposeCalls[2].request[2] = <<"Build form", "Add tests">>
    /\ DecomposeCalls[3].response[1].tasks = <<"Build form">>
    /\ DecomposeCalls[4].request[2] = <<"Build form">>

-----------------------------------------------------------------------------
(* One call per feature in the criteria and prompt stages *)

\* The calls of the history made with a schema, in the order made.
CallsWith(schema) == SelectSeq(llm_calls, LAMBDA c : c.schema = schema)

\* The results list of a per-feature stage (the slot once written, the list being
\* assembled while the stage runs) has one entry per returned call of the stage (a
\* failed run has no list), only the last call made can have raised, and call i
\* carries feature i and the whole of what the state holds for it.
OneCallPerFeature(node, schema, inputs) ==
    LET made == CallsWith(schema)
        out  == IF SlotOf(node) # None THEN SlotOf(node)[1]
                ELSE IF pc = node THEN acc ELSE <<>>
    IN  /\ Len(made) <= Len(Features)
        /\ pc # "FAILED" =>
              Len(out) = Cardinality({k \in DOMAIN made : made[k].outcome = "returned"})
        /\ \A k \in DOMAIN made : k < Len(made) => made[k].outcome = "returned"
        /\ SlotOf(node) # None => Len(out) = Len(Features)
        /\ \A k \in DOMAIN made :
              /\ made[k].index = k
              /\ made[k].request = <<Features[k]>> \o [j \in DOMAIN inputs |-> inputs[j][k]]

\* C22: the acceptance-criteria stage and the prompt stage make one call per feature,
\* whose request holds the feature and its whole task group (for the prompt stage
\* also its criteria), and append one result per call; the number of calls is the
\* number of features whatever the sizes of the task groups, an empty one included.
C22_OneCallPerFeature ==
    /\ OneCallPerFeature("create_acceptance_criteria", "FeatureAcceptanceCriteria",
                         <<OrEmpty(tasks)>>)
    /\ OneCallPerFeature("generate_copilot_prompts", "FeatureCopilotPrompts",
                         <<OrEmpty(tasks), OrEmpty(acceptance_criteria)>>)

C22_Witness ==
    /\ copilot_prompts # None
    /\ tasks[1] = <<<<>>, <<BuildForm, AddTests>>>>
    /\ Len(CallsWith("FeatureAcceptanceCriteria")) = 2
    /\ Len(CallsWith("FeatureCopilotPrompts")) = 2
    /\ CallsWith("FeatureCopilotPrompts")[1].request[2] = <<>>
    /\ CallsWith("FeatureCopilotPrompts")[2].request[2] = <<BuildForm, AddTests>>

-----------------------------------------------------------------------------
(* The prompt stage over any criteria the criteria stage may have returned: *)
(* entries with a repeated title, entries for titles no task has, none.     *)

PromptStageGroups == {<<>>, <<BuildForm, AddTests>>, <<AddTests>>}

PromptStageCriteria == {<<CritBuild, CritBuild2, CritTests>>, <<CritBuild2, CritBuild>>,
                        <<CritDeploy>>, <<>>}

InitPromptStage ==
    /\ pc = "generate_copilot_prompts"
    /\ raw_text = "Build a login page"
    /\ \E n \in 1..MaxFeatures :
          /\ parsed_requirements = Some(ParsedRequirements(SubSeq(FeatureList, 1, n)))
          /\ estimated_complexities = Some(SubSeq(ComplexityList, 1, n))
          /\ \E ts \in [1..n -> PromptStageGroups] : tasks = Some(ts)
          /\ \E ac \in [1..n -> PromptStageCriteria] :
                acceptance_criteria =
                    Some([i \in 1..n |-> FeatureAcceptanceCriteria(ac[i])])
    /\ copilot_prompts = None
    /\ final_json = None
    /\ acc = <<>>
    /\ task_names_response = None
    /\ llm_calls = <<>>
    /\ executed = <<>>
    /\ error = None
    /\ agg_calls = 0
    /\ prev_json = None
    /\ llm_instance = Some("AzureLLM")
    /\ llm_threads = <<>>
    /\ agent_module = "catalyst_agent.agent"
    /\ active = 1
    /\ other = None

NextPromptStage ==
    \/ generate_prompt_for_copilot_call
    \/ generate_copilot_prompts_node
    \/ llm_invoke_raises

SpecPromptStage == InitPromptStage /\ [][NextPromptStage]_vars

\* The positions of the entries of a feature's criteria that carry a title.
EntriesTitled(i, title) ==
    {j \in DOMAIN acceptance_criteria[1][i].tasks_criteria :
        acceptance_criteria[1][i].tasks_criteria[j].task_title = title}

\* C23: the prompt of the call made for feature i has one part per task of feature i,
\* in task order, each with the task's title and description. A task whose title no
\* entry of feature i's criteria carries has nothing else in its part (whatever the
\* criteria of other features hold); otherwise its part lists the GIVEN/WHEN/THEN of
\* the first entry of feature i's criteria with that title and the sizes of that
\* entry's test lists that are not empty.
C23_FirstMatchOfOwnFeature ==
    \A k \in DOMAIN llm_calls :
        llm_calls[k].schema = "FeatureCopilotPrompts" =>
            LET i    == llm_calls[k].index
                part == llm_calls[k].message[1]
            IN  /\ Len(part) = Len(tasks[1][i])
                /\ \A t \in DOMAIN part :
                      LET task == tasks[1][i][t]
                          hits == EntriesTitled(i, task.title)
                      IN  /\ part[t].title = task.title
                          /\ part[t].description = task.description
                          /\ hits = {} =>
                                /\ part[t].criteria = None
                                /\ part[t].unit_tests = None
                                /\ part[t].integration_tests = None
                          /\ hits # {} =>
                                LET first == acceptance_criteria[1][i].tasks_criteria[
                                                 CHOOSE j \in hits : \A h \in hits : j <= h]
                                IN  /\ part[t].criteria # None
                                    /\ Len(part[t].criteria[1]) = Len(first.acceptance_criteria)
                                    /\ \A c \in DOMAIN first.acceptance_criteria :
                                          part[t].criteria[1][c][2] =
                                              first.acceptance_criteria[c].given
                                    /\ part[t].unit_tests =
                                          IF first.unit_tests = <<>> THEN None
                                          ELSE Some(Len(first.unit_tests))
                                    /\ part[t].integration_tests =
                                          IF first.integration_tests = <<>> THEN None
                                          ELSE Some(Len(first.integration_tests))

\* Feature 1's criteria carry "Build form" twice (the second entry first) and feature
\* 2's carry no title of its tasks, while feature 1's do.
C23_Witness ==
    /\ copilot_prompts # None
    /\ Len(tasks[1]) = 2
    /\ tasks[1][1] = <<BuildForm, AddTests>>
    /\ tasks[1][2] = <<AddTests>>
    /\ acceptance_criteria[1][1].tasks_criteria = <<CritBuild2, CritBuild>>
    /\ acceptance_criteria[1][2].tasks_criteria = <<CritDeploy>>
    /\ llm_calls[1].message[1][1].integration_tests = Some(1)
    /\ llm_calls[1].message[1][2].criteria = None
    /\ llm_calls[2].message[1][1].criteria = None

-----------------------------------------------------------------------------
(* Termination *)

\* The steps of the five stages that call the generation capability, and the start.
StageStep ==
    \/ start
    \/ parse_req_node
    \/ estimate_complexity_call
    \/ estimate_complexity_node
    \/ generate_tasks_names_call
    \/ generate_tasks_detail_call
    \/ generate_tasks_node
    \/ create_acceptance_criteria_call
    \/ create_acceptance_criteria_node
    \/ generate_prompt_for_copilot_call
    \/ generate_copilot_prompts_node
    \/ llm_invoke_raises

\* The step of generate_final_json_node, told by what it does to pc: it is the only
\* step of a run that leaves "generate_final_json", and it is possible exactly when
\* the node's guard holds.
FinalJsonStep == pc = "generate_final_json" /\ ~ IteratesNone /\ pc' = "END"

\* agent.invoke runs the graph on the calling thread, one statement after another:
\* while a step of the run is possible one is taken; a generation call that is made
\* returns or raises.
SpecLive == Init /\ [][Next]_vars /\ WF_vars(StageStep) /\ WF_pc(FinalJsonStep)

\* The run is over: the graph reached END with final_json written, or an exception
\* left agent.invoke.
Terminated == (pc = "END" /\ final_json # None) \/ pc = "FAILED"

\* C24: every run eventually is over and stays so: it reaches END with final_json
\* set, or fails; after that no stage runs again, and no run stays for ever in a
\* stage.
C24_RunTerminates == <>[]Terminated

C24_Witness ==
    /\ pc = "END"
    /\ final_json # None
    /\ Len(executed) = 6
    /\ Len(llm_calls) = 11

-----------------------------------------------------------------------------
(* The number of generation calls of a successful run *)

\* The number of calls of the history made by a node.
CallsBy(node) == Len(SelectSeq(llm_calls, LAMBDA c : c.node = node))

\* C25: once the five stages have completed (the aggregator is about to run, or the
\* run is at END), the run over N parsed features has made 1 call in
\* parse_requirements, N in estimate_complexity, 2N in generate_tasks, N in
\* create_acceptance_criteria and N in generate_copilot_prompts, 1 + 5N in all, every
\* one of which returned; the count is the same before and after the aggregator,
\* which makes none; with N = 0 it is 1.
C25_OnePlusFiveNCalls ==
    pc \in {"generate_final_json", "END"} =>
        LET N == Len(Features)
        IN  /\ CallsBy("parse_requirements") = 1
            /\ CallsBy("estimate_complexity") = N
            /\ CallsBy("generate_tasks") = 2 * N
            /\ CallsBy("create_acceptance_criteria") = N
            /\ CallsBy("generate_copilot_prompts") = N
            /\ CallsBy("generate_final_json") = 0
            /\ Len(llm_calls) = 1 + 5 * N
            /\ \A k \in DOMAIN llm_calls : llm_calls[k].outcome = "returned"

C25_Witness ==
    /\ pc = "END"
    /\ agg_calls = 1
    /\ Len(Features) = MaxFeatures
    /\ Len(llm_calls) = 1 + 5 * MaxFeatures

-----------------------------------------------------------------------------
(* Titles, buckets and the task count *)

\* C26: in every final document each task title occurs in at most one phase bucket,
\* and the number of task entries of all phase buckets together is
\* metadata.num_tasks.
C26_EntriesEqualNumTasks ==
    final_json # None =>
        /\ \A e1 \in DocEntries : \A e2 \in DocEntries : e1[2] = e2[2] => e1 = e2
        /\ SumLen([i \in DOMAIN Plan |-> Plan[i][2]]) = JsonGet(Meta, "num_tasks")

-----------------------------------------------------------------------------
(* Whose enrichment an entry carries *)

\* The feature whose task supplies the entry for title t to the intermediate map: the
\* last feature, in order, one of whose tasks carries t.
OwnerFeature(t) ==
    CHOOSE f \in DOMAIN tasks[1] :
        /\ \E j \in DOMAIN tasks[1][f] : tasks[1][f][j].title = t
        /\ \A g \in DOMAIN tasks[1] :
              (\E j \in DOMAIN tasks[1][g] : tasks[1][g][j].title = t) => g <= f

\* C27: for every record of the final document, the feature whose task supplied its
\* description, priority, dependencies and phase is also the feature for which its
\* enrichment was generated: non-null acceptance_criteria (with unit_tests and
\* integration_tests) are those of a TaskAcceptanceCriteria of that feature's
\* FeatureAcceptanceCriteria, and a non-null copilot_prompt is a task prompt of that
\* feature's FeatureCopilotPrompts.
C27_EnrichmentOfOwnFeature ==
    final_json # None =>
        \A e \in DocEntries :
            LET f == OwnerFeature(e[2])
                r == DocRecord(e)
            IN  /\ JsonGet(r, "acceptance_criteria") # None =>
                      \E j \in DOMAIN acceptance_criteria[1][f].tasks_criteria :
                          LET tc == acceptance_criteria[1][f].tasks_criteria[j]
                          IN  /\ tc.task_title = e[2]
                              /\ JsonGet(r, "acceptance_criteria")
                                    = Some(StrEach(tc.acceptance_criteria))
                              /\ JsonGet(r, "unit_tests") = StrEach(tc.unit_tests)
                              /\ JsonGet(r, "integration_tests")
                                    = StrEach(tc.integration_tests)
                /\ JsonGet(r, "copilot_prompt") # None =>
                      \E j \in DOMAIN copilot_prompts[1][f].task_prompts :
                          LET tp == copilot_prompts[1][f].task_prompts[j]
                          IN  /\ tp.task_title = e[2]
                              /\ JsonGet(r, "copilot_prompt") = Some(tp.prompt)

-----------------------------------------------------------------------------
(* Several enrichments for one title *)

\* The last position of a sequence of TaskAcceptanceCriteria or task prompts whose
\* entry carries title t.
LastTitled(entries, t) ==
    CHOOSE k \in DOMAIN entries :
        /\ entries[k].task_title = t
        /\ \A j \in DOMAIN entries : entries[j].task_title = t => j <= k

\* C28: for every record of the document whose title some TaskAcceptanceCriteria
\* carries, its acceptance_criteria, unit_tests and integration_tests are the three
\* values of one TaskAcceptanceCriteria: the last one with that title in the order the
\* aggregator walks them (features in order, entries of a feature in order); and for
\* every record whose title some task prompt carries, copilot_prompt is the prompt of
\* the last such task prompt in that order.
C28_LastEnrichmentWins ==
    final_json # None =>
        \A e \in DocEntries :
            LET r == DocRecord(e)
            IN  /\ (\E k \in DOMAIN StateCriteria : StateCriteria[k].task_title = e[2]) =>
                      LET tc == StateCriteria[LastTitled(StateCriteria, e[2])]
                      IN  /\ JsonGet(r, "acceptance_criteria")
                                = Some(StrEach(tc.acceptance_criteria))
                          /\ JsonGet(r, "unit_tests") = StrEach(tc.unit_tests)
                          /\ JsonGet(r, "integration_tests") = StrEach(tc.integration_tests)
                /\ (\E k \in DOMAIN StatePrompts : StatePrompts[k].task_title = e[2]) =>
                      JsonGet(r, "copilot_prompt")
                          = Some(StatePrompts[LastTitled(StatePrompts, e[2])].prompt)

\* "Build form" has criteria from both features (the first with an integration test,
\* the second without) and prompts from both.
C28_Witness ==
    /\ final_json # None
    /\ acceptance_criteria # Absent /\ acceptance_criteria # None
    /\ copilot_prompts # Absent /\ copilot_prompts # None
    /\ StateCriteria = <<CritBuild2, CritBuild, CritTests>>
    /\ StatePrompts = <<PromptBuild, PromptTests, PromptBuild2, PromptDeploy>>
    /\ \E e \in DocEntries :
          /\ e[2] = "Build form"
          /\ JsonGet(DocRecord(e), "integration_tests") = <<>>
          /\ JsonGet(DocRecord(e), "unit_tests") = StrEach(CritBuild.unit_tests)
          /\ JsonGet(DocRecord(e), "copilot_prompt") = Some(PromptBuild2.prompt)

-----------------------------------------------------------------------------
(* The aggregator on tasks whose phase was not validated: the node reads    *)
(* task.phase from whatever objects the state holds, and tests the value    *)
(* against the buckets before using it.                                     *)

\* A task whose phase is none of the ProjectPhase values.
Ship == WithPhase(Task("Ship", "d4", "low", <<>>), "deployment")

UnvalidatedGroups == {<<>>, <<Ship>>, <<BuildForm, Ship>>, <<Ship, AddTests>>}

InitAnyPhase ==
    /\ pc = "DIRECT"
    /\ raw_text = "Build a login page"
    /\ \E n \in 0..MaxFeatures :
          /\ parsed_requirements = Some(ParsedRequirements(SubSeq(FeatureList, 1, n)))
          /\ estimated_complexities = Some(SubSeq(ComplexityList, 1, n))
          /\ \E ts \in [1..n -> UnvalidatedGroups] : tasks = Some(ts)
          /\ \E ac \in [1..n -> {<<CritBuild, CritTests>>, <<CritDeploy>>}] :
                acceptance_criteria = Some([i \in 1..n |-> FeatureAcceptanceCriteria(ac[i])])
          /\ copilot_prompts =
                Some([i \in 1..n |-> FeatureCopilotPrompts(<<PromptBuild, PromptTests>>)])
    /\ final_json = None
    /\ acc = <<>>
    /\ task_names_response = None
    /\ llm_calls = <<>>
    /\ executed = <<>>
    /\ error = None
    /\ agg_calls = 0
    /\ prev_json = None
    /\ llm_instance = None
    /\ llm_threads = <<>>
    /\ agent_module = "catalyst_agent.agent"
    /\ active = 1
    /\ other = None

NextAnyPhase == call_generate_final_json_node

SpecAnyPhase == InitAnyPhase /\ [][NextAnyPhase]_vars

\* C29: every call of the aggregator returns a document; the keys of its
\* development_plan are the ProjectPhase values and no other; a title whose entry of
\* the intermediate map has a phase that is none of them is in no bucket, every other
\* title is in the bucket of its phase; and metadata.num_tasks counts all the tasks of
\* the state, those left out included.
C29_OnlyPhaseBuckets ==
    /\ agg_calls > 0 => final_json # None
    /\ final_json # None =>
        /\ JsonKeys(Plan) = Range(ProjectPhase)
        /\ Len(Plan) = Len(ProjectPhase)
        /\ \A t \in TaskTitles :
              LET phase == FinalTaskMap.map[t].phase
              IN  {e \in DocEntries : e[2] = t} =
                      IF phase \in Range(ProjectPhase) THEN {<<phase, t>>} ELSE {}
        /\ JsonGet(Meta, "num_tasks") = Len(StateTasks)

C29_Witness ==
    /\ final_json # None
    /\ tasks = Some(<<<<BuildForm, Ship>>, <<Ship, AddTests>>>>)
    /\ JsonGet(Meta, "num_tasks") = 4
    /\ DocEntries = {<<"implementation", "Build form">>, <<"testing", "Add tests">>}

-----------------------------------------------------------------------------
(* get_llm called from several threads. The function takes no lock: between *)
(* the test of the global, the construction and the assignment another      *)
(* thread may run.                                                          *)

MaxThreads == 2
MaxGetLlmCalls == 2

Threads == 1..MaxThreads

\* A thread outside get_llm that has made no call yet: made lists the instances the
\* thread constructed, got the instances its calls returned.
ThreadIdle == [at |-> "idle", made |-> <<>>, got |-> <<>>]

InitGetLlm ==
    /\ pc = "START"
    /\ raw_text = "Build a login page"
    /\ parsed_requirements = None
    /\ estimated_complexities = None
    /\ tasks = None
    /\ acceptance_criteria = None
    /\ copilot_prompts = None
    /\ final_json = None
    /\ acc = <<>>
    /\ task_names_response = None
    /\ llm_calls = <<>>
    /\ executed = <<>>
    /\ error = None
    /\ agg_calls = 0
    /\ prev_json = None
    /\ agent_module = "catalyst_agent.agent"
    /\ active = 1
    /\ other = None
    /\ llm_instance = None
    /\ llm_threads = [t \in Threads |-> ThreadIdle]

\* What a step of get_llm leaves alone: the state and locals of the runs.
GetLlmFrame ==
    UNCHANGED <<pc, slots, acc, task_names_response, llm_calls, executed, error,
                agg_calls, prev_json, agent_module, active, other>>

\* if _llm_instance is None:
get_llm_test(t) ==
    /\ llm_threads[t].at = "idle"
    /\ Len(llm_threads[t].got) < MaxGetLlmCalls
    /\ llm_threads' = [llm_threads EXCEPT
                          ![t].at = IF llm_instance = None THEN "construct" ELSE "return"]
    /\ UNCHANGED llm_instance
    /\ GetLlmFrame

\* AzureLLM(): a new object, told from the others by the thread and the number of
\* objects the thread has made.
get_llm_construct(t) ==
    /\ llm_threads[t].at = "construct"
    /\ llm_threads' = [llm_threads EXCEPT
                          ![t].at = "assign",
                          ![t].made = Append(@, <<"AzureLLM", t, Len(@) + 1>>)]
    /\ UNCHANGED llm_instance
    /\ GetLlmFrame

\* _llm_instance = <the object made>
get_llm_assign(t) ==
    /\ llm_threads[t].at = "assign"
    /\ llm_instance' = Some(llm_threads[t].made[Len(llm_threads[t].made)])
    /\ llm_threads' = [llm_threads EXCEPT ![t].at = "return"]
    /\ GetLlmFrame

\* return _llm_instance
get_llm_return(t) ==
    /\ llm_threads[t].at = "return"
    /\ llm_threads' = [llm_threads EXCEPT ![t].at = "idle",
                                          ![t].got = Append(@, llm_instance[1])]
    /\ UNCHANGED llm_instance
    /\ GetLlmFrame

NextGetLlm ==
    \E t \in Threads :
        \/ get_llm_test(t)
        \/ get_llm_construct(t)
        \/ get_llm_assign(t)
        \/ get_llm_return(t)

SpecGetLlm == InitGetLlm /\ [][NextGetLlm]_vars

\* The AzureLLM objects constructed so far, and the objects the calls returned.
Constructed == UNION {Range(llm_threads[t].made) : t \in DOMAIN llm_threads}
Returned == UNION {Range(llm_threads[t].got) : t \in DOMAIN llm_threads}

\* C30: over any interleaving of calls of get_llm, first calls of several threads
\* included, at most one AzureLLM object is ever constructed and every call returns
\* that same object.
C30_GetLlmIsSingleton ==
    /\ Cardinality(Constructed) <= 1
    /\ Cardinality(Returned) <= 1
    /\ Returned \subseteq Constructed

=============================================================================
